---- MODULE Spec2Model ----
(***************************************************************************)
(* Question-bank toolkit: the encryption / decryption scripts              *)
(* (encrypt_questions.py, decrypt_questions.py), the test generator        *)
(* (generate_test.py) and the rehashing script (rehash_questions.py).      *)
(*                                                                         *)
(* The specifications share the variables:                                 *)
(*   SpecCrypt   runs of the two command line scripts over one file system *)
(*   SpecNames   the same, over cat_a.csv or cat_a.csv.csv                 *)
(*   SpecSelect  a process that constructs a TestGenerator and calls       *)
(*               select_questions                                          *)
(*   SpecRerun   the same, run twice with a seed configured                *)
(*   SpecGen     one process that calls generate_test                      *)
(*   SpecRender  one process that renders a selection: the test, the PDF,  *)
(*               the answer key                                            *)
(*   SpecPaths   the same, for output file names with and without '.md'    *)
(*   SpecPool    select_questions on tables with several rows per hash     *)
(*   SpecInPlace encrypt_file and decrypt_file called in place             *)
(*   SpecHash    generate_hash applied to a question text                  *)
(*   SpecRehash  rehash_csv_file applied to a question file                *)
(***************************************************************************)
EXTENDS Integers, Sequences, FiniteSets, TLC

VARIABLES
    \* ---- the scripts' world
    fs,           \* the file system: path -> bytes, a path being <<dir, name>>
    pc,           \* position of the running script
    args,         \* the parsed command line of the running script
    todo,         \* files of the batch loop not yet visited
    count,        \* encrypted_count / decrypted_count
    total_files,  \* total_files
    exit_code,    \* exit status of the last finished script (-1: none yet)
    report,       \* the closing line of the last finished script
    nruns,        \* scripts started so far
    last,         \* history: the last encrypt_file / decrypt_file call
    origin,       \* history: path -> what encrypt_file put there
    auth_failed,  \* history: a file of this run failed authentication
    dirs,         \* the directories that exist
    batch,        \* history: the files this run matched and its calls, in order
    \* ---- the generator's world
    config,       \* the loaded test_config.yaml
    questions_df, \* the loaded question table (a sequence of rows)
    PDF_AVAILABLE,\* whether the PDF libraries were importable
    rng,          \* state of Python's global random stream
    gpc,          \* position of the generator process
    selected,     \* history: what the last select_questions call did
    history,      \* history: the lists returned by select_questions, per process
    out_files,    \* the output directory: filename -> artifact
    results,      \* generate_test's results dict
    variant_num,  \* generate_test's loop variable
    \* ---- the rehashing script's world
    csv,          \* the question file rehash_csv_file works on
    hcall         \* history: the last generate_hash / rehash_csv_file call

cryptVars == <<fs, pc, args, todo, count, total_files, exit_code, report, nruns, last,
               origin, auth_failed, dirs, batch>>
genVars == <<config, questions_df, PDF_AVAILABLE, rng, gpc, selected, history,
             out_files, results, variant_num>>
hashVars == <<csv, hcall>>
vars == <<cryptVars, genVars, hashVars>>

(***************************************************************************)
(* Bounds of the model.                                                    *)
(***************************************************************************)
MaxRuns == 2         \* script runs in one behaviour

MaxRows == 3         \* rows of a question table

MaxVariants == 2     \* num_variants of a configuration

MaxQuestions == 11   \* questions of a selection to render

MaxCalls == 3        \* in-place calls of encrypt_file / decrypt_file in one behaviour

MaxText == 4         \* characters of a question text given to generate_hash

(***************************************************************************)
(* Generic helpers.                                                        *)
(***************************************************************************)
None == "None"

Last(s) == s[Len(s)]

Front(s) == SubSeq(s, 1, Len(s) - 1)

Range(s) == {s[i] : i \in DOMAIN s}

Min(a, b) == IF a <= b THEN a ELSE b

\* Python's s[a:b] on a sequence (0-based, end exclusive, clamped).
Slice(s, a, b) == SubSeq(s, a + 1, Min(b, Len(s)))

RECURSIVE SeqsUpTo(_, _)
SeqsUpTo(S, n) ==
    IF n = 0 THEN {<<>>}
    ELSE LET shorter == SeqsUpTo(S, n - 1)
         IN  shorter \cup {Append(s, x) : s \in {t \in shorter : Len(t) = n - 1}, x \in S}

(***************************************************************************)
(* Key derivation and the Fernet cipher.                                   *)
(*                                                                         *)
(* PBKDF2-HMAC-SHA256 and Fernet are library code. PBKDF2 is modelled as   *)
(* a collision-free deterministic function of (password, salt); a Fernet   *)
(* token as a signature over the key and the body followed by the body,    *)
(* the body being the plaintext shifted by the key. Decryption verifies    *)
(* the signature first and raises InvalidToken on any mismatch.            *)
(***************************************************************************)
SaltLen == 16

\* An injective numbering of the byte strings with bytes below base - 1.
RECURSIVE Code(_, _)
Code(bs, base) ==
    IF bs = <<>> THEN 0 ELSE (bs[1] + 1) + base * Code(Tail(bs), base)

\* derive_key_from_password(password, salt): one key per (password, salt).
derive_key_from_password(password, salt) ==
    password * (2 * (3 ^ SaltLen)) + Code(salt, 3)

InvalidToken == "InvalidToken"

Digest(body) == Code(body, 257)

\* Fernet(key).encrypt(data)
FernetEncrypt(key, data) ==
    LET body == [i \in 1 .. Len(data) |-> (data[i] + key) % 256]
    IN  <<key, Digest(body)>> \o body

\* Fernet(key).decrypt(token): the plaintext, or InvalidToken raised.
FernetDecrypt(key, token) ==
    IF Len(token) < 2 THEN [raised |-> InvalidToken, data |-> <<>>]
    ELSE LET body == SubSeq(token, 3, Len(token))
         IN  IF token[1] # key \/ token[2] # Digest(body)
             THEN [raised |-> InvalidToken, data |-> <<>>]
             ELSE [raised |-> None,
                   data |-> [i \in 1 .. Len(body) |-> (body[i] - key) % 256]]

(***************************************************************************)
(* File names and pathlib. A name is a sequence of tokens: an optional     *)
(* "cat_" prefix, a body, then suffixes (each with its dot).               *)
(*   cat_a.csv = <<"cat_", "a", ".csv">>   mappings.yaml = <<"mappings",   *)
(*   ".yaml">>                                                             *)
(***************************************************************************)
HasSuffix(name) ==
    Len(name) >= 2 /\ Last(name) \in {".csv", ".yaml", ".encrypted", ".decrypted"}

\* PurePath.stem
stem(name) == IF HasSuffix(name) THEN Front(name) ELSE name

\* PurePath.with_suffix(suffix)
with_suffix(name, suffix) == Append(stem(name), suffix)

\* str.endswith(suffix) for a suffix token
endswith(name, suffix) == Len(name) >= 1 /\ Last(name) = suffix

\* str.startswith('cat_')
startswith_cat(name) == Len(name) >= 1 /\ name[1] = "cat_"

\* Path.glob("cat_*.csv") and Path.glob("*.encrypted") over a directory
glob(fsys, dir, pattern) ==
    {p[2] : p \in {q \in DOMAIN fsys :
        /\ q[1] = dir
        /\ IF pattern = "cat_*.csv"
           THEN Len(q[2]) >= 2 /\ startswith_cat(q[2]) /\ endswith(q[2], ".csv")
           ELSE Len(q[2]) >= 2 /\ endswith(q[2], ".encrypted")}}

\* open(path, 'wb').write(data)
WriteFile(fsys, path, data) ==
    [p \in DOMAIN fsys \cup {path} |-> IF p = path THEN data ELSE fsys[p]]

\* Path.unlink()
Unlink(fsys, path) == [p \in DOMAIN fsys \ {path} |-> fsys[p]]

(***************************************************************************)
(* encrypt_file(file_path, password, output_dir, in_place)                 *)
(* salt is what os.urandom(16) returned; fault is the I/O call that raises *)
(* in this call: "none", "read", "write" (the open of line 62), "partial"  *)
(* (the write of line 64, after the salt), "unlink" (line 68). The result  *)
(* holds the new file system, the returned boolean, the printed line and   *)
(* the output path.                                                        *)
(***************************************************************************)
EncryptOutputFile(file_path, output_dir, in_place) ==
    IF in_place
    THEN <<file_path[1], with_suffix(file_path[2], ".encrypted")>>
    ELSE <<output_dir, Append(stem(file_path[2]), ".encrypted")>>

\* encrypt_file removing the source before it writes the output file
encrypt_file_unlink_first(fsys, file_path, password, output_dir, in_place, salt, fault) ==
    LET key == derive_key_from_password(password, salt)
        output_file == EncryptOutputFile(file_path, output_dir, in_place)
        removed == IF in_place THEN Unlink(fsys, file_path) ELSE fsys
    IN  IF file_path \notin DOMAIN fsys \/ fault = "read"
        THEN [fs |-> fsys, ret |-> FALSE, msg |-> "[ERROR] Failed to encrypt",
              output_file |-> output_file]
        ELSE IF fault \in {"write", "partial", "unlink"}
        THEN [fs |-> removed, ret |-> FALSE, msg |-> "[ERROR] Failed to encrypt",
              output_file |-> output_file]
        ELSE [fs |-> WriteFile(removed, output_file,
                               salt \o FernetEncrypt(key, fsys[file_path])),
              ret |-> TRUE,
              msg |-> IF in_place THEN "[OK] Encrypted in-place" ELSE "[OK] Encrypted",
              output_file |-> output_file]

encrypt_file(fsys, file_path, password, output_dir, in_place, salt, fault) ==
    LET key == derive_key_from_password(password, salt)
        output_file == EncryptOutputFile(file_path, output_dir, in_place)
        failed(fsys_left) ==
            [fs |-> fsys_left, ret |-> FALSE, msg |-> "[ERROR] Failed to encrypt",
             output_file |-> output_file]
    IN  IF file_path \notin DOMAIN fsys \/ fault = "read"
        THEN failed(fsys)
        ELSE LET file_data == fsys[file_path]
                 encrypted_data == FernetEncrypt(key, file_data)
             IN  IF fault = "write"
                 THEN failed(fsys)
                 ELSE IF fault = "partial"
                 THEN failed(WriteFile(fsys, output_file, salt))
                 ELSE LET written == WriteFile(fsys, output_file,
                                               salt \o encrypted_data)
                      IN  IF in_place /\ fault = "unlink"
                          THEN failed(written)
                          ELSE IF in_place
                          THEN [fs |-> Unlink(written, file_path), ret |-> TRUE,
                                msg |-> "[OK] Encrypted in-place",
                                output_file |-> output_file]
                          ELSE [fs |-> written, ret |-> TRUE,
                                msg |-> "[OK] Encrypted",
                                output_file |-> output_file]

(***************************************************************************)
(* decrypt_file(encrypted_file_path, password, output_dir, in_place)       *)
(***************************************************************************)
\* lines 61-69 and 75-83: the name restored from an .encrypted name
RestoredName(name) ==
    LET base_name == stem(name)
    IN  IF startswith_cat(base_name) /\ ~endswith(base_name, ".csv")
        THEN Append(base_name, ".csv")
        ELSE IF base_name = <<"mappings">> THEN <<"mappings", ".yaml">>
        ELSE base_name

DecryptOutputFile(encrypted_file_path, output_dir, in_place) ==
    LET name == encrypted_file_path[2]
    IN  IF in_place
        THEN IF endswith(name, ".encrypted")
             THEN <<encrypted_file_path[1], RestoredName(name)>>
             ELSE <<encrypted_file_path[1], with_suffix(name, ".decrypted")>>
        ELSE IF endswith(name, ".encrypted")
             THEN <<output_dir, RestoredName(name)>>
             ELSE <<output_dir, Append(stem(name), "_decrypted")>>

\* A slip in the slice: one byte short of the salt.
SaltOfShort(file_data) == Slice(file_data, 0, SaltLen - 1)

\* salt = file_data[:16]
SaltOf(file_data) == Slice(file_data, 0, SaltLen)

\* encrypted_data = file_data[16:]
EncryptedDataOf(file_data) == Slice(file_data, SaltLen, Len(file_data))

\* The exceptions decrypt_file catches, with what the handler reads of
\* str(e). cryptography raises InvalidToken without arguments, so its text
\* is the empty string; an OSError's text is "[Errno n] reason: 'path'".
InvalidTokenError ==
    [type |-> InvalidToken, has_InvalidToken |-> FALSE, has_decrypt |-> FALSE]

OSError ==
    [type |-> "OSError", has_InvalidToken |-> FALSE, has_decrypt |-> FALSE]

\* lines 101-106: the line printed for exception e
DecryptErrorLine(e) ==
    IF e.has_InvalidToken \/ e.has_decrypt
    THEN "[ERROR] Failed to decrypt: Incorrect password or corrupted file"
    ELSE "[ERROR] Failed to decrypt: str(e)"

\* A slip in the order: the output file is opened for writing before the
\* token is verified, and the in-place removal runs whatever happened.
decrypt_file_eager(fsys, encrypted_file_path, password, output_dir, in_place, fault) ==
    LET output_file == DecryptOutputFile(encrypted_file_path, output_dir, in_place)
        opened == WriteFile(fsys, output_file, <<>>)
    IN  [fs |-> IF in_place THEN Unlink(opened, encrypted_file_path) ELSE opened,
         ret |-> FALSE, msg |-> DecryptErrorLine(InvalidTokenError),
         cause |-> InvalidToken, output_file |-> output_file]

decrypt_file(fsys, encrypted_file_path, password, output_dir, in_place, fault) ==
    LET output_file == DecryptOutputFile(encrypted_file_path, output_dir, in_place)
        left(fsys_left, line, cause) ==
            [fs |-> fsys_left, ret |-> FALSE, msg |-> line, cause |-> cause,
             output_file |-> output_file]
        failed(line, cause) == left(fsys, line, cause)
    IN  IF encrypted_file_path \notin DOMAIN fsys \/ fault = "read"
        THEN failed(DecryptErrorLine(OSError), OSError.type)
        ELSE LET file_data == fsys[encrypted_file_path]
             IN  IF Len(file_data) < SaltLen
                 THEN failed("[ERROR] Invalid encrypted file (too small)", "too small")
                 ELSE LET salt == SaltOf(file_data)
                          encrypted_data == EncryptedDataOf(file_data)
                          key == derive_key_from_password(password, salt)
                          dec == FernetDecrypt(key, encrypted_data)
                      IN  IF dec.raised # None
                          THEN failed(DecryptErrorLine(InvalidTokenError), InvalidToken)
                          ELSE IF fault = "write"
                          THEN failed(DecryptErrorLine(OSError), OSError.type)
                          ELSE IF fault = "partial"
                          THEN \* line 89 opened the file, the write of line 90 raised
                               left(WriteFile(fsys, output_file, <<>>),
                                    DecryptErrorLine(OSError), OSError.type)
                          ELSE LET written == WriteFile(fsys, output_file, dec.data)
                               IN  IF in_place /\ fault = "unlink"
                                   THEN left(written, DecryptErrorLine(OSError),
                                             OSError.type)
                                   ELSE IF in_place
                                   THEN [fs |-> Unlink(written, encrypted_file_path),
                                         ret |-> TRUE,
                                         msg |-> "[OK] Decrypted in-place",
                                         cause |-> None,
                                         output_file |-> output_file]
                                   ELSE [fs |-> written, ret |-> TRUE,
                                         msg |-> "[OK] Decrypted",
                                         cause |-> None,
                                         output_file |-> output_file]
(***************************************************************************)
(* The scripts' inputs.                                                    *)
(***************************************************************************)
\* The contents cat_a.csv starts with: empty, one byte, two bytes.
Data == {<<>>, <<0>>, <<1, 0>>}

\* The values os.urandom(16) takes in the model: salt n ends in n ones.
SaltValue(n) == [i \in 1 .. SaltLen |-> IF i > SaltLen - n THEN 1 ELSE 0]

Salts == {SaltValue(0), SaltValue(1)}

\* Password 0 is the empty string.
Passwords == {0, 1, 2}

\* The I/O call that raises OSError in one encrypt_file / decrypt_file call.
Faults == {"none", "write"}

QuestionsDir == "questions"

EncryptedDir == "encrypted_questions"

DecryptedDir == "decrypted"

CatA == <<"cat_", "a", ".csv">>

\* cat_a.csv.csv also matches cat_*.csv
CatDouble == <<"cat_", "a", ".csv", ".csv">>

Mappings == <<"mappings", ".yaml">>

\* A directory that was never created.
MissingDir == "no_such_dir"

\* The question file the directory starts with.
SourceFiles == {[name |-> CatA, data |-> data] : data \in Data}

\* The command lines of encrypt_questions.py: -p, -i, --include-mappings, -q
EncryptCommandLines ==
    [password : Passwords, in_place : BOOLEAN, include_mappings : BOOLEAN,
     questions_dir : {QuestionsDir}]
    \cup [password : {1}, in_place : BOOLEAN, include_mappings : {FALSE},
          questions_dir : {MissingDir}]


NoFile == [exists |-> FALSE, data |-> <<>>]

\* What a path holds in a file system.
FileAt(fsys, path) ==
    IF path \in DOMAIN fsys THEN [exists |-> TRUE, data |-> fsys[path]]
    ELSE NoFile

NoOrigin ==
    [known |-> FALSE, data |-> <<>>, password |-> 0, source |-> <<"", <<>>>>,
     in_place |-> FALSE]

NoCall ==
    [op |-> "none", path |-> <<"", <<>>>>, password |-> 0, in_place |-> FALSE,
     fault |-> "none", ret |-> FALSE, msg |-> "", cause |-> None,
     output_file |-> <<"", <<>>>>, origin |-> NoOrigin,
     fs_changed |-> FALSE, written |-> NoFile, source_kept |-> FALSE]

NoBatch == [files |-> {}, calls |-> <<>>]

NoArgs ==
    [prog |-> "none", password |-> 0, in_place |-> FALSE, input_dir |-> "",
     output_dir |-> "", include_mappings |-> FALSE, overwrite |-> FALSE,
     response |-> ""]

OriginOf(path) == IF path \in DOMAIN origin THEN origin[path] ELSE NoOrigin

\* The rehashing script is not running.
NoCsv == [exists |-> FALSE, header |-> <<>>, rows |-> <<>>, lineterminator |-> ""]

HashIdle ==
    /\ csv = NoCsv
    /\ hcall = [op |-> "none"]

GenOff ==
    /\ config = None
    /\ questions_df = <<>>
    /\ PDF_AVAILABLE = FALSE
    /\ rng = 0
    /\ gpc = "off"
    /\ selected = None
    /\ history = <<>>
    /\ out_files = <<>>
    /\ results = <<>>
    /\ variant_num = 0

GenIdle == GenOff /\ HashIdle

\* The state before the scripts run, questions/ holding the file and mappings.yaml.
InitWith(file) ==
    /\ fs = [p \in {<<QuestionsDir, file.name>>, <<QuestionsDir, Mappings>>} |->
                IF p[2] = file.name THEN file.data ELSE <<1>>]
    /\ dirs = {QuestionsDir}
    /\ batch = NoBatch
    /\ pc = "idle"
    /\ args = NoArgs
    /\ todo = {}
    /\ count = 0
    /\ total_files = 0
    /\ exit_code = -1
    /\ report = None
    /\ nruns = 0
    /\ last = NoCall
    /\ origin = <<>>
    /\ auth_failed = FALSE
    /\ GenIdle

InitCrypt == \E file \in SourceFiles : InitWith(file)

\* A plain return where sys.exit(code) was meant: the status is 0.
ReturnFromMain(code) ==
    /\ pc' = "idle"
    /\ exit_code' = 0
    /\ report' = None
    /\ todo' = {}
    /\ count' = 0
    /\ total_files' = 0
    /\ last' = NoCall
    /\ batch' = NoBatch
    /\ UNCHANGED <<fs, origin>>

\* sys.exit(code) before the batch started
Exit(code) ==
    /\ pc' = "idle"
    /\ exit_code' = code
    /\ report' = None
    /\ todo' = {}
    /\ count' = 0
    /\ total_files' = 0
    /\ last' = NoCall
    /\ batch' = NoBatch
    /\ UNCHANGED <<fs, origin>>

(***************************************************************************)
(* encrypt_questions.py main(), lines 79-169.                              *)
(***************************************************************************)
\* lines 91-133: the command line, the directories, the glob
EncryptStart ==
    /\ pc = "idle"
    /\ nruns < MaxRuns
    /\ \E cmd \in EncryptCommandLines :
        LET password == cmd.password
            in_place == cmd.in_place
            include_mappings == cmd.include_mappings
            questions_dir == cmd.questions_dir
            output_dir == IF in_place THEN questions_dir ELSE EncryptedDir
            csv_files == glob(fs, questions_dir, "cat_*.csv")
        IN  /\ args' = [prog |-> "encrypt", password |-> password,
                        in_place |-> in_place, input_dir |-> questions_dir,
                        output_dir |-> output_dir,
                        include_mappings |-> include_mappings,
                        overwrite |-> FALSE, response |-> ""]
            /\ nruns' = nruns + 1
            /\ auth_failed' = FALSE
            \* line 116: output_dir.mkdir(exist_ok=True), after the password check
            /\ dirs' = IF password = 0 \/ in_place THEN dirs
                       ELSE dirs \cup {output_dir}
            /\ IF password = 0 \/ questions_dir \notin dirs' \/ csv_files = {}
               THEN Exit(1)
               ELSE /\ pc' = "encrypt_loop"
                    /\ todo' = csv_files
                    /\ count' = 0
                    /\ total_files' = Cardinality(csv_files)
                    /\ exit_code' = -1
                    /\ report' = None
                    /\ last' = NoCall
                    /\ batch' = [files |-> csv_files, calls |-> <<>>]
                    /\ UNCHANGED <<fs, origin>>
    /\ UNCHANGED <<genVars, hashVars>>

\* What a call of encrypt_file leaves in the history variables.
EncryptCall(path, salt, fault, r) ==
    /\ fs' = r.fs
    /\ last' = [op |-> "encrypt", path |-> path, password |-> args.password,
                in_place |-> args.in_place, fault |-> fault, ret |-> r.ret,
                msg |-> r.msg, cause |-> None, output_file |-> r.output_file,
                origin |-> NoOrigin, fs_changed |-> (r.fs # fs),
                written |-> FileAt(r.fs, r.output_file),
                source_kept |-> (FileAt(r.fs, path) = FileAt(fs, path))]
    /\ origin' = IF r.ret
                 THEN [p \in DOMAIN origin \cup {r.output_file} |->
                         IF p = r.output_file
                         THEN [known |-> TRUE, data |-> fs[path],
                               password |-> args.password, source |-> path,
                               in_place |-> args.in_place]
                         ELSE origin[p]]
                 ELSE origin
    /\ batch' = [batch EXCEPT !.calls =
                    Append(@, [path |-> path, ret |-> r.ret, cause |-> None,
                               output_file |-> r.output_file,
                               existed |-> (r.output_file \in DOMAIN fs)])]

\* lines 135-137: one iteration of the loop over csv_files
EncryptStep ==
    /\ pc = "encrypt_loop"
    /\ todo # {}
    /\ \E name \in todo, salt \in Salts, fault \in Faults :
        LET path == <<args.input_dir, name>>
            r == encrypt_file(fs, path, args.password, args.output_dir,
                              args.in_place, salt, fault)
        IN  /\ EncryptCall(path, salt, fault, r)
            /\ count' = IF r.ret THEN count + 1 ELSE count
            /\ todo' = todo \ {name}
    /\ UNCHANGED <<pc, args, total_files, exit_code, report, nruns, auth_failed,
                   dirs>>
    /\ UNCHANGED <<genVars, hashVars>>

\* lines 152-169: the closing report
EncryptReport(encrypted_count, total) ==
    IF encrypted_count = total
    THEN "[SUCCESS] All files encrypted successfully!"
    ELSE "[WARNING] Some files failed to encrypt."

\* lines 139-169: the optional mappings.yaml, the tally, the normal return
EncryptFinish ==
    /\ pc = "encrypt_loop"
    /\ todo = {}
    /\ LET mappings_file == <<args.input_dir, Mappings>>
       IN  IF args.include_mappings /\ mappings_file \in DOMAIN fs
           THEN \E salt \in Salts, fault \in Faults :
                  LET r == encrypt_file(fs, mappings_file, args.password,
                                        args.output_dir, args.in_place, salt, fault)
                  IN  /\ EncryptCall(mappings_file, salt, fault, r)
                      /\ count' = IF r.ret THEN count + 1 ELSE count
                      /\ total_files' = IF r.ret THEN total_files + 1
                                        ELSE total_files
                      /\ report' = EncryptReport(count', total_files')
                     ELSE /\ report' = EncryptReport(count, total_files)
                /\ UNCHANGED <<fs, last, origin, count, total_files, batch>>
    /\ pc' = "idle"
    /\ exit_code' = 0
    /\ UNCHANGED <<args, todo, nruns, auth_failed, dirs>>
    /\ UNCHANGED <<genVars, hashVars>>

(***************************************************************************)
(* decrypt_questions.py main(), lines 129-229.                             *)
(***************************************************************************)
\* lines 143-193: the command line, the overwrite prompt, the glob
DecryptStart ==
    /\ pc = "idle"
    /\ nruns < MaxRuns
    /\ \E password \in Passwords, in_place \in BOOLEAN,
          overwrite \in BOOLEAN, typed \in {"y", "n"} :
        LET encrypted_dir == IF in_place THEN QuestionsDir ELSE EncryptedDir
            output_dir == IF in_place THEN encrypted_dir ELSE DecryptedDir
            existing_files == {p \in DOMAIN fs : p[1] = output_dir}
            encrypted_files == glob(fs, encrypted_dir, "*.encrypted")
            \* lines 172-176: input() is read only when the prompt is shown
            made == IF password = 0 \/ in_place THEN dirs ELSE dirs \cup {output_dir}
            prompted == /\ password # 0 /\ encrypted_dir \in made
                        /\ ~in_place /\ existing_files # {} /\ ~overwrite
            response == IF prompted THEN typed ELSE ""
        IN  /\ args' = [prog |-> "decrypt", password |-> password,
                        in_place |-> in_place, input_dir |-> encrypted_dir,
                        output_dir |-> output_dir, include_mappings |-> FALSE,
                        overwrite |-> overwrite, response |-> response]
            /\ nruns' = nruns + 1
            /\ auth_failed' = FALSE
            \* line 163: output_dir.mkdir(exist_ok=True), after the password check
            /\ dirs' = made
            /\ IF \/ password = 0
                  \/ encrypted_dir \notin made
                  \/ (~in_place /\ existing_files # {} /\ ~overwrite
                        /\ response \notin {"y", "yes"})
                  \/ encrypted_files = {}
               THEN Exit(1)
               ELSE /\ pc' = "decrypt_loop"
                    /\ todo' = encrypted_files
                    /\ count' = 0
                    /\ total_files' = Cardinality(encrypted_files)
                    /\ exit_code' = -1
                    /\ report' = None
                    /\ last' = NoCall
                    /\ batch' = [files |-> encrypted_files, calls |-> <<>>]
                    /\ UNCHANGED <<fs, origin>>
    /\ UNCHANGED <<genVars, hashVars>>

\* lines 195-197: one iteration of the loop over encrypted_files
DecryptStep ==
    /\ pc = "decrypt_loop"
    /\ todo # {}
    /\ \E name \in todo, fault \in Faults :
        LET path == <<args.input_dir, name>>
            r == decrypt_file(fs, path, args.password, args.output_dir,
                              args.in_place, fault)
        IN  /\ fs' = r.fs
            /\ last' = [op |-> "decrypt", path |-> path,
                        password |-> args.password, in_place |-> args.in_place,
                        fault |-> fault, ret |-> r.ret, msg |-> r.msg,
                        cause |-> r.cause, output_file |-> r.output_file,
                        origin |-> OriginOf(path), fs_changed |-> (r.fs # fs),
                        written |-> FileAt(r.fs, r.output_file),
                        source_kept |-> (FileAt(r.fs, path) = FileAt(fs, path))]
            /\ origin' = [p \in DOMAIN origin \cap DOMAIN r.fs |-> origin[p]]
            /\ auth_failed' = (auth_failed \/ r.cause = InvalidToken)
            /\ batch' = [batch EXCEPT !.calls =
                            Append(@, [path |-> path, ret |-> r.ret, cause |-> r.cause,
                                       output_file |-> r.output_file,
                                       existed |-> (r.output_file \in DOMAIN fs)])]
            /\ count' = IF r.ret THEN count + 1 ELSE count
            /\ todo' = todo \ {name}
    /\ UNCHANGED <<pc, args, total_files, exit_code, report, nruns, dirs>>
    /\ UNCHANGED <<genVars, hashVars>>

\* A report that calls the run a success as soon as one file was decrypted.
DecryptReportAny(decrypted_count, total) ==
    IF decrypted_count > 0
    THEN "[SUCCESS] All files decrypted successfully!"
    ELSE "[WARNING] Some files failed to decrypt."

\* lines 202-229: the closing report
DecryptReport(decrypted_count, total) ==
    IF decrypted_count = total
    THEN "[SUCCESS] All files decrypted successfully!"
    ELSE "[WARNING] Some files failed to decrypt."

\* lines 199-229: the tally and the normal return
DecryptFinish ==
    /\ pc = "decrypt_loop"
    /\ todo = {}
    /\ report' = DecryptReport(count, total_files)
    /\ pc' = "idle"
    /\ exit_code' = 0
    /\ UNCHANGED <<fs, args, todo, count, total_files, nruns, last, origin,
                   auth_failed, dirs, batch>>
    /\ UNCHANGED <<genVars, hashVars>>

(***************************************************************************)
(* The environment damages an encrypted file between two runs: one byte    *)
(* changed, or the file cut short. At most one file is damaged at a time.  *)
(***************************************************************************)
EncryptedFiles(fsys) == {p \in DOMAIN fsys : endswith(p[2], ".encrypted")}

Damaged(file_data) ==
    {[file_data EXCEPT ![Len(file_data)] = (file_data[Len(file_data)] + 1) % 256],
     SubSeq(file_data, 1, SaltLen - 1)}

Corrupt ==
    /\ pc = "idle"
    /\ nruns < MaxRuns
    /\ EncryptedFiles(fs) = DOMAIN origin
    /\ \E path \in DOMAIN origin :
        \E damaged \in Damaged(fs[path]) :
            /\ fs' = [fs EXCEPT ![path] = damaged]
            /\ origin' = [p \in DOMAIN origin \ {path} |-> origin[p]]
    /\ UNCHANGED <<pc, args, todo, count, total_files, exit_code, report,
                   nruns, last, auth_failed, dirs, batch>>
    /\ UNCHANGED <<genVars, hashVars>>

NextCrypt ==
    \/ EncryptStart
    \/ EncryptStep
    \/ EncryptFinish
    \/ DecryptStart
    \/ DecryptStep
    \/ DecryptFinish
    \/ Corrupt

SpecCrypt == InitCrypt /\ [][NextCrypt]_vars

(***************************************************************************)
(* SpecNames: the scripts over a directory whose question file is          *)
(* cat_a.csv or cat_a.csv.csv.                                             *)
(***************************************************************************)
InitNames == \E name \in {CatA, CatDouble} : InitWith([name |-> name, data |-> <<0>>])

SpecNames == InitNames /\ [][NextCrypt]_vars

(***************************************************************************)
(* SpecInPlace: encrypt_file and decrypt_file called in place on the files *)
(* the scripts' loops hand them (cat_*.csv, *.encrypted), each call with   *)
(* any password and with any one of its I/O calls raising.                 *)
(***************************************************************************)
InPlaceFaults == {"none", "read", "write", "partial", "unlink"}

\* encrypt_questions.py lines 135-137 with --in-place
EncryptInPlace ==
    /\ nruns < MaxCalls
    /\ \E name \in glob(fs, QuestionsDir, "cat_*.csv"), password \in Passwords,
          salt \in Salts, fault \in InPlaceFaults :
        LET path == <<QuestionsDir, name>>
            r == encrypt_file(fs, path, password, EncryptedDir, TRUE, salt, fault)
        IN  /\ fs' = r.fs
            /\ last' = [op |-> "encrypt", path |-> path, password |-> password,
                        in_place |-> TRUE, fault |-> fault, ret |-> r.ret,
                        msg |-> r.msg, cause |-> None, output_file |-> r.output_file,
                        origin |-> [NoOrigin EXCEPT !.data = fs[path]],
                        fs_changed |-> (r.fs # fs),
                        written |-> FileAt(r.fs, r.output_file),
                        source_kept |-> (FileAt(r.fs, path) = FileAt(fs, path))]
            /\ origin' = IF r.ret
                         THEN [p \in {r.output_file} |->
                                 [known |-> TRUE, data |-> fs[path],
                                  password |-> password, source |-> path,
                                  in_place |-> TRUE]]
                         ELSE <<>>
    /\ nruns' = nruns + 1
    /\ UNCHANGED <<pc, args, todo, count, total_files, exit_code, report, auth_failed,
                   dirs, batch>>
    /\ UNCHANGED <<genVars, hashVars>>

\* decrypt_questions.py lines 195-197 with --in-place
DecryptInPlace ==
    /\ nruns < MaxCalls
    /\ \E name \in glob(fs, QuestionsDir, "*.encrypted"), password \in Passwords,
          fault \in InPlaceFaults :
        LET path == <<QuestionsDir, name>>
            r == decrypt_file(fs, path, password, DecryptedDir, TRUE, fault)
        IN  /\ fs' = r.fs
            /\ last' = [op |-> "decrypt", path |-> path, password |-> password,
                        in_place |-> TRUE, fault |-> fault, ret |-> r.ret,
                        msg |-> r.msg, cause |-> r.cause,
                        output_file |-> r.output_file,
                        origin |-> OriginOf(path), fs_changed |-> (r.fs # fs),
                        written |-> FileAt(r.fs, r.output_file),
                        source_kept |-> (FileAt(r.fs, path) = FileAt(fs, path))]
            /\ origin' = <<>>
    /\ nruns' = nruns + 1
    /\ UNCHANGED <<pc, args, todo, count, total_files, exit_code, report, auth_failed,
                   dirs, batch>>
    /\ UNCHANGED <<genVars, hashVars>>

NextInPlace ==
    \/ EncryptInPlace
    \/ DecryptInPlace

SpecInPlace == InitCrypt /\ [][NextInPlace]_vars
(***************************************************************************)
(* generate_test.py: strings. A string the code transforms is a sequence   *)
(* of characters.                                                          *)
(***************************************************************************)
\* str.lower(), on the capitals the model's strings use
LowerChar(c) ==
    CASE c = "A" -> "a"
      [] c = "E" -> "e"
      [] c = "H" -> "h"
      [] c = "M" -> "m"
      [] c = "T" -> "t"
      [] c = "V" -> "v"
      [] OTHER -> c

\* difficulty.lower().replace(' ', '_'), lines 157, 161 and 197
normalize(difficulty) ==
    [i \in DOMAIN difficulty |->
        IF LowerChar(difficulty[i]) = " " THEN "_" ELSE LowerChar(difficulty[i])]

S_trivial == <<"t", "r", "i", "v", "i", "a", "l">>

S_easy == <<"e", "a", "s", "y">>

S_Easy == <<"E", "a", "s", "y">>

S_medium == <<"m", "e", "d", "i", "u", "m">>

S_hard == <<"h", "a", "r", "d">>

S_Hard == <<"H", "a", "r", "d">>

S_very_hard == <<"v", "e", "r", "y", "_", "h", "a", "r", "d">>

S_very_hard_spaced == <<"v", "e", "r", "y", " ", "h", "a", "r", "d">>

S_Very_Hard_spaced == <<"V", "e", "r", "y", " ", "H", "a", "r", "d">>

\* dict.get(key, default) on a dict given as a sequence of <<key, value>>
RECURSIVE DictGet(_, _, _)
DictGet(dict, key, default) ==
    IF dict = <<>> THEN default
    ELSE IF Head(dict)[1] = key THEN Head(dict)[2]
    ELSE DictGet(Tail(dict), key, default)

\* An optional configuration value: <<>> when the key is absent, <<v>> when set.
Absent == <<>>

GetOr(opt, default) == IF opt = Absent THEN default ELSE opt[1]

(***************************************************************************)
(* get_difficulty_distribution, lines 88-101: label -> (count, points), in *)
(* the configuration's order.                                              *)
(***************************************************************************)
DefaultPoints == 5

get_difficulty_distribution(cfg) ==
    LET points_per_question == GetOr(cfg.points_per_question, DefaultPoints)
        distribution == cfg.difficulty_distribution
    IN  [i \in DOMAIN distribution |->
            [difficulty |-> distribution[i][1], count |-> distribution[i][2],
             points |-> points_per_question]]

(***************************************************************************)
(* filter_questions_by_categories, lines 103-122.                          *)
(***************************************************************************)
\* lines 115-118: the first key of the mapping whose value is cat
RECURSIVE KeyOfLabel(_, _)
KeyOfLabel(mapping, cat) ==
    IF Head(mapping)[2] = cat THEN Head(mapping)[1]
    ELSE KeyOfLabel(Tail(mapping), cat)

\* snake_case_categories without the resolution of labels
snake_case_categories_verbatim(categories, mapping) == categories

snake_case_categories(categories, mapping) ==
    [i \in DOMAIN categories |->
        IF \E j \in DOMAIN mapping : mapping[j][2] = categories[i]
        THEN KeyOfLabel(mapping, categories[i])
        ELSE categories[i]]

filter_questions_by_categories(df, categories, mapping) ==
    IF "*" \in Range(categories) THEN df
    ELSE LET keys == Range(snake_case_categories(categories, mapping))
             keep(row) == row.category \in keys
         IN  SelectSeq(df, keep)

(***************************************************************************)
(* select_questions, lines 124-203.                                        *)
(***************************************************************************)
DefaultPreferredTypes ==
    <<"multiple_choice", "short_answer", "free_text", "code", "essay">>

\* ScanRows without the seen_hashes test
RECURSIVE ScanRowsKeepAll(_, _, _)
ScanRowsKeepAll(rows, preferred_type, acc) ==
    IF rows = <<>> THEN acc
    ELSE LET question == Head(rows)
         IN  ScanRowsKeepAll(Tail(rows), preferred_type,
                IF question.type = preferred_type
                THEN [unique_questions |-> Append(acc.unique_questions, question),
                      seen_hashes |-> acc.seen_hashes \cup {question.hash}]
                ELSE acc)

\* ScanRows without the test of the row's type
RECURSIVE ScanRowsAnyType(_, _, _)
ScanRowsAnyType(rows, preferred_type, acc) ==
    IF rows = <<>> THEN acc
    ELSE LET question == Head(rows)
         IN  ScanRowsAnyType(Tail(rows), preferred_type,
                IF question.hash \notin acc.seen_hashes
                THEN [unique_questions |-> Append(acc.unique_questions, question),
                      seen_hashes |-> acc.seen_hashes \cup {question.hash}]
                ELSE acc)

\* lines 142-145: one pass over the rows of one preferred type
RECURSIVE ScanRows(_, _, _)
ScanRows(rows, preferred_type, acc) ==
    IF rows = <<>> THEN acc
    ELSE LET question == Head(rows)
         IN  ScanRows(Tail(rows), preferred_type,
                IF question.type = preferred_type /\ question.hash \notin acc.seen_hashes
                THEN [unique_questions |-> Append(acc.unique_questions, question),
                      seen_hashes |-> acc.seen_hashes \cup {question.hash}]
                ELSE acc)

\* ScanTypes taking the preferred types from the last listed to the first
RECURSIVE ScanTypesBackwards(_, _, _)
ScanTypesBackwards(preferred_types, rows, acc) ==
    IF preferred_types = <<>> THEN acc
    ELSE ScanTypesBackwards(Front(preferred_types), rows,
                            ScanRows(rows, Last(preferred_types), acc))

\* lines 140-145: the loop over preferred_types
RECURSIVE ScanTypes(_, _, _)
ScanTypes(preferred_types, rows, acc) ==
    IF preferred_types = <<>> THEN acc
    ELSE ScanTypes(Tail(preferred_types), rows,
                   ScanRows(rows, Head(preferred_types), acc))

\* lines 132-148: the type-preference dedup
unique_questions(filtered_df, preferred_types) ==
    ScanTypes(preferred_types, filtered_df,
              [unique_questions |-> <<>>, seen_hashes |-> {}]).unique_questions

\* difficulty_questions comparing the labels as written
difficulty_questions_exact(pool, difficulty) ==
    {i \in DOMAIN pool : pool[i].difficulty = difficulty}

\* lines 160-162: the positions of the pool whose difficulty matches the tier
difficulty_questions(pool, difficulty) ==
    {i \in DOMAIN pool : normalize(pool[i].difficulty) = normalize(difficulty)}

\* DataFrame.sample(n=count): count distinct rows in an order drawn from
\* numpy's global stream, which nothing in the program seeds.
RECURSIVE Arrangements(_, _)
Arrangements(S, n) ==
    IF n = 0 THEN {<<>>}
    ELSE UNION {{<<x>> \o rest : rest \in Arrangements(S \ {x}, n - 1)} : x \in S}

\* Stamp keeping the row's own difficulty as original_difficulty
StampRowDifficulty(question, points, difficulty) ==
    [calculated_points |-> points, original_difficulty |-> question.difficulty] @@ question

\* lines 177-179: the two fields added to a sampled question
Stamp(question, points, difficulty) ==
    [calculated_points |-> points, original_difficulty |-> difficulty] @@ question

\* lines 164-181: what one tier can add to selected_questions
TierSamples(pool, tier) ==
    LET candidates == difficulty_questions(pool, tier.difficulty)
        n == IF Cardinality(candidates) < tier.count
             THEN Cardinality(candidates) ELSE tier.count
    IN  IF candidates = {} THEN {<<>>}
        ELSE {[k \in DOMAIN picks |-> Stamp(pool[picks[k]], tier.points, tier.difficulty)] :
                picks \in Arrangements(candidates, n)}

\* lines 155-181: every list the loop over the tiers can build
RECURSIVE SampledLists(_, _)
SampledLists(pool, tiers) ==
    IF tiers = <<>> THEN {<<>>}
    ELSE {first \o rest : first \in TierSamples(pool, Head(tiers)),
                          rest \in SampledLists(pool, Tail(tiers))}

\* lines 186-193
difficulty_order ==
    << <<S_trivial, 1>>, <<S_easy, 2>>, <<S_medium, 3>>, <<S_hard, 4>>,
       <<S_very_hard_spaced, 5>>, <<S_very_hard, 5>> >>

UnknownRank == 999

\* lines 196-198: the sort key
SortKey(q) == DictGet(difficulty_order, normalize(q.original_difficulty), UnknownRank)

\* InsertByKey putting x before the elements of equal key
RECURSIVE InsertByKeyUnstable(_, _)
InsertByKeyUnstable(sorted, x) ==
    IF sorted = <<>> THEN <<x>>
    ELSE IF SortKey(Last(sorted)) < SortKey(x) THEN Append(sorted, x)
    ELSE Append(InsertByKeyUnstable(Front(sorted), x), Last(sorted))

\* list.sort(key=...) is stable: x goes after every element whose key is
\* not greater.
RECURSIVE InsertByKey(_, _)
InsertByKey(sorted, x) ==
    IF sorted = <<>> THEN <<x>>
    ELSE IF SortKey(Last(sorted)) <= SortKey(x) THEN Append(sorted, x)
    ELSE Append(InsertByKey(Front(sorted), x), Last(sorted))

RECURSIVE SortByDifficulty(_)
SortByDifficulty(qs) ==
    IF qs = <<>> THEN <<>>
    ELSE InsertByKey(SortByDifficulty(Front(qs)), Last(qs))

\* sum(q['calculated_points'] for q in questions)
RECURSIVE total_points(_)
total_points(questions) ==
    IF questions = <<>> THEN 0
    ELSE Head(questions).calculated_points + total_points(Tail(questions))

(***************************************************************************)
(* Python's global random stream. The generator is modelled as a           *)
(* full-period congruential generator on 4 states; only its being a       *)
(* deterministic function of its state matters.                            *)
(***************************************************************************)
RngStates == 0 .. 3

NextRng(state) == (5 * state + 3) % 4

\* random.shuffle(x): for i in reversed(range(1, len(x))):
\*     j = randbelow(i + 1); x[i], x[j] = x[j], x[i]
\* i is the 1-based position still to be filled.
RECURSIVE ShuffleFrom(_, _, _)
ShuffleFrom(x, i, state) ==
    IF i <= 1 THEN [list |-> x, rng |-> state]
    ELSE LET drawn == NextRng(state)
             j == (drawn % i) + 1
         IN  ShuffleFrom([x EXCEPT ![i] = x[j], ![j] = x[i]], i - 1, drawn)

shuffle(x, state) == ShuffleFrom(x, Len(x), state)
(***************************************************************************)
(* select_questions as a whole: every way one call can end from a          *)
(* configuration, a table and a state of the random stream.                *)
(***************************************************************************)
\* mappings.yaml, 'categories': snake_case key -> human-readable label
CategoryMappings == << <<"c1", "Label 1">>, <<"c2", "Label 2">> >>

select_questions(cfg, df, state) ==
    LET filtered_df == filter_questions_by_categories(df, cfg.categories, CategoryMappings)
        preferred_types == GetOr(cfg.preferred_question_types, DefaultPreferredTypes)
        pool == unique_questions(filtered_df, preferred_types)
        difficulty_dist == get_difficulty_distribution(cfg)
    IN  IF pool = <<>> /\ difficulty_dist # <<>>
        THEN \* line 148 builds a frame without columns; line 161 raises
             {[raised |-> "KeyError", filtered_df |-> filtered_df,
               unique_questions |-> pool, sampled |-> <<>>,
               questions |-> <<>>, rng |-> state]}
        ELSE {LET ordered == IF ~cfg.shuffle_questions
                             THEN [list |-> SortByDifficulty(sampled), rng |-> state]
                             ELSE shuffle(sampled, state)
              IN  [raised |-> None, filtered_df |-> filtered_df,
                   unique_questions |-> pool, sampled |-> sampled,
                   questions |-> ordered.list, rng |-> ordered.rng] :
                sampled \in SampledLists(pool, difficulty_dist)}

(***************************************************************************)
(* Inputs of the generator: question tables and configurations.            *)
(***************************************************************************)
S_bonus == <<"b", "o", "n", "u", "s">>

Row(hash, type, difficulty, category) ==
    [hash |-> hash, type |-> type, difficulty |-> difficulty, category |-> category]

RowKinds ==
    {Row("h1", "multiple_choice", S_easy, "c1"),
     Row("h1", "short_answer", S_Easy, "c1"),
     Row("h2", "multiple_choice", S_easy, "c2"),
     Row("h2", "essay", S_bonus, "c2"),
     Row("h3", "short_answer", S_Hard, "c1"),
     Row("h4", "multiple_choice", S_Very_Hard_spaced, "c2")}

Tables == SeqsUpTo(RowKinds, MaxRows)

\* difficulty_distribution: no tier, one tier, or two tiers, each asking for
\* one or two questions
Distributions ==
    {<<>>}
    \cup {<< <<S_easy, n>> >> : n \in {1, 2}}
    \cup {<< <<pair[1], n>>, <<pair[2], m>> >> :
            pair \in {<<S_easy, S_hard>>, <<S_Hard, S_easy>>, <<S_easy, S_Easy>>,
                      <<S_bonus, S_very_hard_spaced>>},
            n \in {1, 2}, m \in {1, 2}}

\* question_selection besides the distribution: categories, points, preferences
Profiles ==
    {[categories |-> <<"*">>, points_per_question |-> Absent,
      preferred_question_types |-> Absent],
     [categories |-> <<"Label 1">>, points_per_question |-> <<2>>,
      preferred_question_types |-> << <<"short_answer", "multiple_choice">> >>]}

Seeds == {Absent, <<3>>}

Config(profile, distribution, shuffle_questions, random_seed, output) ==
    [categories |-> profile.categories,
     points_per_question |-> profile.points_per_question,
     preferred_question_types |-> profile.preferred_question_types,
     difficulty_distribution |-> distribution,
     shuffle_questions |-> shuffle_questions,
     random_seed |-> random_seed,
     output_format |-> output.output_format,
     output_filename |-> output.output_filename,
     include_answers |-> output.include_answers,
     generate_variants |-> output.generate_variants,
     num_variants |-> output.num_variants]

DefaultOutput ==
    [output_format |-> "markdown", output_filename |-> <<"test", ".md">>,
     include_answers |-> FALSE, generate_variants |-> FALSE, num_variants |-> 1]

SelectConfigs ==
    {Config(profile, distribution, shuffle_questions, random_seed, DefaultOutput) :
        profile \in Profiles, distribution \in Distributions,
        shuffle_questions \in BOOLEAN, random_seed \in Seeds}

NoSelection ==
    [raised |-> None, filtered_df |-> <<>>, unique_questions |-> <<>>, sampled |-> <<>>,
     questions |-> <<>>]

CryptOff ==
    /\ fs = <<>>
    /\ pc = "off"
    /\ args = NoArgs
    /\ todo = {}
    /\ count = 0
    /\ total_files = 0
    /\ exit_code = -1
    /\ report = None
    /\ nruns = 0
    /\ last = NoCall
    /\ origin = <<>>
    /\ auth_failed = FALSE
    /\ dirs = {}
    /\ batch = NoBatch

CryptIdle == CryptOff /\ HashIdle

(***************************************************************************)
(* SpecSelect: a process builds a TestGenerator and calls select_questions.*)
(***************************************************************************)
InitSelect ==
    /\ config \in SelectConfigs
    /\ questions_df \in Tables
    /\ PDF_AVAILABLE = FALSE
    /\ rng = 0
    /\ gpc = "new"
    /\ selected = NoSelection
    /\ history = <<>>
    /\ out_files = <<>>
    /\ results = <<>>
    /\ variant_num = 0
    /\ CryptIdle

\* TestGenerator.__init__: setup_random_seed seeds Python's stream when a
\* seed is configured; otherwise the stream keeps the state the interpreter
\* gave it from the operating system's entropy.
Construct ==
    /\ gpc = "new"
    /\ gpc' = "ready"
    /\ IF config.random_seed # Absent
       THEN rng' = config.random_seed[1] % Cardinality(RngStates)
       ELSE rng' \in RngStates
    /\ UNCHANGED <<config, questions_df, PDF_AVAILABLE, selected, history, out_files,
                   results, variant_num>>
    /\ UNCHANGED <<cryptVars, hashVars>>

SelectQuestions ==
    /\ gpc = "ready"
    /\ \E outcome \in select_questions(config, questions_df, rng) :
          /\ selected' = [raised |-> outcome.raised,
                          filtered_df |-> outcome.filtered_df,
                          unique_questions |-> outcome.unique_questions,
                          sampled |-> outcome.sampled,
                          questions |-> outcome.questions]
          /\ history' = Append(history, selected')
          /\ rng' = outcome.rng
    /\ gpc' = "returned"
    /\ UNCHANGED <<config, questions_df, PDF_AVAILABLE, out_files, results, variant_num>>
    /\ UNCHANGED <<cryptVars, hashVars>>

NextSelect ==
    \/ Construct
    \/ SelectQuestions

SpecSelect == InitSelect /\ [][NextSelect]_vars

(***************************************************************************)
(* SpecRerun: the same command is run twice with a seed configured: two    *)
(* processes, one after the other, on the same configuration and table.    *)
(***************************************************************************)
InitRerun ==
    /\ InitSelect
    /\ config.random_seed # Absent

\* The first process has ended; the command is started again.
RunAgain ==
    /\ gpc = "returned"
    /\ Len(history) = 1
    /\ gpc' = "new"
    /\ selected' = NoSelection
    /\ UNCHANGED <<config, questions_df, PDF_AVAILABLE, rng, history, out_files, results,
                   variant_num>>
    /\ UNCHANGED <<cryptVars, hashVars>>

NextRerun ==
    \/ Construct
    \/ SelectQuestions
    \/ RunAgain

SpecRerun == InitRerun /\ [][NextRerun]_vars

(***************************************************************************)
(* SpecPool: one select_questions call on tables in which one hash has     *)
(* several rows of one type, with categories requested by key, by label,   *)
(* by an unknown name and by the wildcard, and with preference lists that  *)
(* leave types out.                                                        *)
(***************************************************************************)
PoolRowKinds ==
    {Row("h1", "multiple_choice", S_easy, "c1"),
     Row("h1", "multiple_choice", S_Hard, "c1"),
     Row("h1", "short_answer", S_easy, "c1"),
     Row("h1", "essay", S_easy, "c2"),
     Row("h2", "essay", S_Hard, "c1"),
     Row("h2", "short_answer", S_easy, "c2")}

PoolProfiles ==
    {[categories |-> categories, points_per_question |-> Absent,
      preferred_question_types |-> preferred_question_types] :
        categories \in {<<"*">>, <<"c1">>, <<"Label 2">>, <<"c1", "Label 2">>,
                        <<"c3">>, <<"Label 1", "*">>},
        preferred_question_types \in
            {Absent, << <<"essay", "multiple_choice">> >>, << <<"short_answer">> >>}}

InitPool ==
    /\ config \in {Config(profile, distribution, FALSE, <<3>>, DefaultOutput) :
                      profile \in PoolProfiles,
                      distribution \in {<< <<S_easy, 2>> >>,
                                        << <<S_easy, 1>>, <<S_hard, 1>> >>}}
    /\ questions_df \in SeqsUpTo(PoolRowKinds, MaxRows)
    /\ PDF_AVAILABLE = FALSE
    /\ rng = 0
    /\ gpc = "new"
    /\ selected = NoSelection
    /\ history = <<>>
    /\ out_files = <<>>
    /\ results = <<>>
    /\ variant_num = 0
    /\ CryptIdle

SpecPool == InitPool /\ [][NextSelect]_vars

(***************************************************************************)
(* save_test, save_pdf and generate_test, lines 595-1164. A file name is a *)
(* sequence of tokens, so that str.replace('.md', ...) acts on the '.md'   *)
(* tokens of the name. An artifact records its layout, what it renders     *)
(* and the question sequence it renders.                                   *)
(***************************************************************************)
RECURSIVE Replace(_, _, _)
Replace(name, old, new) ==
    IF name = <<>> THEN <<>>
    ELSE (IF Head(name) = old THEN new ELSE <<Head(name)>>) \o Replace(Tail(name), old, new)

\* str(n) for the variant numbers of the model
Digits == <<"1", "2", "3", "4", "5", "6", "7", "8", "9", "10", "11", "12", "13", "14">>

\* A suffix that takes the first variant's number whatever n is.
variant_suffix_first(cfg, n) ==
    Replace(GetOr(cfg.variant_suffix, <<"_variant_", "{n}">>), "{n}", <<Digits[1]>>)

\* lines 1044-1045 and 1123-1132: suffix_template.format(n=n), the template
\* being advanced.variant_suffix or '_variant_{n}'
variant_suffix(cfg, n) ==
    Replace(GetOr(cfg.variant_suffix, <<"_variant_", "{n}">>), "{n}", <<Digits[n]>>)

\* generate_test_content / generate_answer_key written by save_test
MarkdownArtifact(content, questions) ==
    [layout |-> "markdown", content |-> content, questions |-> questions]

\* lines 838-869: save_pdf lays out the question sheet of its questions
\* argument; html_content is split into lines (793) and not used again
PdfArtifact(questions) ==
    [layout |-> "pdf", content |-> "test", questions |-> questions]

save_test(files, content, filename, questions) ==
    [p \in DOMAIN files \cup {filename} |->
        IF p = filename THEN MarkdownArtifact(content, questions) ELSE files[p]]

\* save_pdf, lines 595-1004: every way the call can end. questions is
\* Absent when the caller leaves it out; a selection that raises is caught
\* by line 1002 and the call returns "" without a file.
save_pdf(cfg, df, files, html_content, filename, questions, state) ==
    LET pdf_filename == Replace(filename, ".md", <<".pdf">>)
        built(qs) == [p \in DOMAIN files \cup {pdf_filename} |->
                         IF p = pdf_filename THEN PdfArtifact(qs) ELSE files[p]]
    IN  IF questions # Absent
        THEN {[path |-> pdf_filename, files |-> built(questions[1]), rng |-> state]}
        ELSE {IF o.raised # None
              THEN [path |-> <<>>, files |-> files, rng |-> o.rng]
              ELSE [path |-> pdf_filename, files |-> built(o.questions), rng |-> o.rng] :
                o \in select_questions(cfg, df, state)}

SetKey(dict, key, value) ==
    [k \in DOMAIN dict \cup {key} |-> IF k = key THEN value ELSE dict[k]]

WantsMarkdown(cfg) == cfg.output_format \in {"markdown", "both", "md"}

WantsPdf(cfg) == cfg.output_format \in {"pdf", "both"}

\* One set of artifacts: lines 1045-1076 (first variant), 1083-1118 (plain
\* test) and 1131-1162 (later variants). base is the file name without its
\* '.md', key the prefix of the results keys; pdf_questions is what the
\* block passes to save_pdf as questions; fallback tells whether the block
\* has the branch that writes Markdown when the PDF libraries are missing.
ArtifactSet(cfg, df, pdf_available, st, names, keys, questions, pdf_questions, fallback) ==
    LET md == IF WantsMarkdown(cfg)
              THEN [files |-> save_test(st.files, "test", names.md, questions),
                    results |-> SetKey(st.results, keys.md, names.md), rng |-> st.rng]
              ELSE st
        pdfs == IF WantsPdf(cfg) /\ pdf_available
                THEN {[files |-> r.files,
                       results |-> IF r.path # <<>> THEN SetKey(md.results, keys.pdf, r.path)
                                   ELSE md.results,
                       rng |-> r.rng] :
                        r \in save_pdf(cfg, df, md.files, "test", names.pdf, pdf_questions, md.rng)}
                ELSE IF WantsPdf(cfg) /\ fallback /\ keys.md \notin DOMAIN md.results
                THEN {[files |-> save_test(md.files, "test", names.md, questions),
                       results |-> SetKey(md.results, keys.md, names.md), rng |-> md.rng]}
                ELSE {md}
        answers_md(s) == IF WantsMarkdown(cfg)
                         THEN [files |-> save_test(s.files, "answers", names.answers_md, questions),
                               results |-> SetKey(s.results, keys.answers_md, names.answers_md),
                               rng |-> s.rng]
                         ELSE s
        answers_pdf(s) == IF WantsPdf(cfg) /\ pdf_available
                          THEN {[files |-> r.files,
                                 results |-> IF r.path # <<>>
                                             THEN SetKey(s.results, keys.answers_pdf, r.path)
                                             ELSE s.results,
                                 rng |-> r.rng] :
                                  r \in save_pdf(cfg, df, s.files, "answers", names.answers_pdf,
                                                 pdf_questions, s.rng)}
                          ELSE {s}
    IN  IF cfg.include_answers
        THEN UNION {answers_pdf(answers_md(s)) : s \in pdfs}
        ELSE pdfs

\* lines 1039-1076 and 1134-1160: the names and keys of variant n
VariantNames(cfg, n) ==
    LET base_name == Replace(cfg.output_filename, ".md", <<>>)
    IN  [md |-> base_name \o variant_suffix(cfg, n) \o <<".md">>,
         pdf |-> base_name \o variant_suffix(cfg, n) \o <<".pdf">>,
         answers_md |-> base_name \o variant_suffix(cfg, n) \o <<"_answers", ".md">>,
         answers_pdf |-> base_name \o variant_suffix(cfg, n) \o <<"_answers", ".pdf">>]

VariantKeys(n) ==
    [md |-> <<"variant_", Digits[n], "_md">>,
     pdf |-> <<"variant_", Digits[n], "_pdf">>,
     answers_md |-> <<"variant_", Digits[n], "_answers_md">>,
     answers_pdf |-> <<"variant_", Digits[n], "_answers_pdf">>]

\* lines 1083-1118: the names and keys of a test without variants
PlainNames(output_filename) ==
    [md |-> output_filename,
     pdf |-> Replace(output_filename, ".md", <<".pdf">>),
     answers_md |-> Replace(output_filename, ".md", <<"_answers", ".md">>),
     answers_pdf |-> Replace(output_filename, ".md", <<"_answers", ".pdf">>)]

PlainKeys ==
    [md |-> <<"test_md">>, pdf |-> <<"test_pdf">>,
     answers_md |-> <<"answers_md">>, answers_pdf |-> <<"answers_pdf">>]

Projection(o) ==
    [raised |-> o.raised, filtered_df |-> o.filtered_df,
     unique_questions |-> o.unique_questions,
     sampled |-> o.sampled, questions |-> o.questions]

(***************************************************************************)
(* SpecGen: one process that builds a TestGenerator and calls              *)
(* generate_test.                                                          *)
(***************************************************************************)
GenTables ==
    {<<>>,
     <<Row("h1", "multiple_choice", S_easy, "c1"), Row("h2", "multiple_choice", S_easy, "c2")>>,
     <<Row("h1", "multiple_choice", S_easy, "c1"), Row("h2", "multiple_choice", S_easy, "c2"),
       Row("h3", "short_answer", S_Hard, "c1")>>}

Outputs ==
    [output_format : {"markdown", "pdf", "both"}, output_filename : {<<"test", ".md">>},
     include_answers : BOOLEAN, generate_variants : {FALSE}, num_variants : {1},
     variant_suffix : {Absent}]
    \cup
    [output_format : {"markdown", "pdf", "both"}, output_filename : {<<"test", ".md">>},
     include_answers : BOOLEAN, generate_variants : {TRUE}, num_variants : 1 .. MaxVariants,
     variant_suffix : {Absent, << <<"_v", "{n}">> >>, << <<"_copy">> >>}]

GenConfigs ==
    {[variant_suffix |-> output.variant_suffix]
        @@ Config(profile, distribution, shuffle_questions, random_seed, output) :
        profile \in {p \in Profiles : p.points_per_question = Absent},
        distribution \in {<< <<S_easy, 1>> >>, << <<S_easy, 2>>, <<S_hard, 1>> >>}, shuffle_questions \in BOOLEAN,
        random_seed \in Seeds, output \in Outputs}

InitGen ==
    /\ config \in GenConfigs
    /\ questions_df \in GenTables
    /\ PDF_AVAILABLE \in BOOLEAN
    /\ rng = 0
    /\ gpc = "new"
    /\ selected = NoSelection
    /\ history = <<>>
    /\ out_files = <<>>
    /\ results = <<>>
    /\ variant_num = 0
    /\ CryptIdle

\* lines 1021-1119: the selection and the artifacts of the test, or of
\* variant 1 when variants are generated
GenerateFirst ==
    /\ gpc = "ready"
    /\ \E o \in select_questions(config, questions_df, rng) :
          /\ selected' = Projection(o)
          /\ IF o.raised # None
             THEN /\ gpc' = "raised"
                  /\ rng' = o.rng
                  /\ UNCHANGED <<out_files, results, variant_num>>
             ELSE \E w \in ArtifactSet(config, questions_df, PDF_AVAILABLE,
                                       [files |-> out_files, results |-> results, rng |-> o.rng],
                                       IF config.generate_variants
                                       THEN VariantNames(config, 1)
                                       ELSE PlainNames(config.output_filename),
                                       IF config.generate_variants THEN VariantKeys(1)
                                       ELSE PlainKeys,
                                       o.questions, <<o.questions>>, TRUE) :
                     /\ out_files' = w.files
                     /\ results' = w.results
                     /\ rng' = w.rng
                     /\ gpc' = "variants"
                     /\ variant_num' = 2
          /\ history' = Append(history, Projection(o))
    /\ UNCHANGED <<config, questions_df, PDF_AVAILABLE>>
    /\ UNCHANGED <<cryptVars, hashVars>>

\* lines 1126-1162: one iteration of the loop over range(2, num_variants + 1)
GenerateVariant ==
    /\ gpc = "variants"
    /\ config.generate_variants
    /\ variant_num <= config.num_variants
    /\ \E o \in select_questions(config, questions_df, rng) :
          /\ selected' = Projection(o)
          /\ IF o.raised # None
             THEN /\ gpc' = "raised"
                  /\ rng' = o.rng
                  /\ UNCHANGED <<out_files, results, variant_num>>
             ELSE \E w \in ArtifactSet(config, questions_df, PDF_AVAILABLE,
                                       [files |-> out_files, results |-> results, rng |-> o.rng],
                                       VariantNames(config, variant_num),
                                       VariantKeys(variant_num),
                                       o.questions, Absent, FALSE) :
                     /\ out_files' = w.files
                     /\ results' = w.results
                     /\ rng' = w.rng
                     /\ gpc' = "variants"
                     /\ variant_num' = variant_num + 1
          /\ history' = Append(history, Projection(o))
    /\ UNCHANGED <<config, questions_df, PDF_AVAILABLE>>
    /\ UNCHANGED <<cryptVars, hashVars>>

\* line 1164: return results
Return ==
    /\ gpc = "variants"
    /\ ~config.generate_variants \/ variant_num > config.num_variants
    /\ gpc' = "done"
    /\ UNCHANGED <<config, questions_df, PDF_AVAILABLE, rng, selected, history, out_files,
                   results, variant_num>>
    /\ UNCHANGED <<cryptVars, hashVars>>

NextGen ==
    \/ Construct
    \/ GenerateFirst
    \/ GenerateVariant
    \/ Return

SpecGen == InitGen /\ [][NextGen]_vars
(***************************************************************************)
(* Rendering: format_question, generate_test_content, generate_answer_key  *)
(* and the question loop of save_pdf. A rendered question or answer line   *)
(* is a record of the parts its f-string joins. The options cell of a row  *)
(* is what pandas loaded: a string holding JSON text (a list, an object, a *)
(* number, or text that is not JSON) or NaN for an empty cell.             *)
(***************************************************************************)
\* chr(ord('a') + i)
Letters == <<"a", "b", "c", "d", "e", "f", "g", "h", "i", "j", "k", "l", "m", "n">>

chr_a(i) == Letters[i + 1]

\* lines 217 and 453
roman_nums == <<"i", "ii", "iii", "iv", "v", "vi", "vii", "viii", "ix", "x">>

\* lines 210-220: num_str
num_str(numbering_style, question_num) ==
    CASE numbering_style = "numeric" -> <<Digits[question_num], ".">>
      [] numbering_style = "alphabetic" -> <<chr_a(question_num - 1), ")">>
      [] numbering_style = "roman" -> <<roman_nums[Min(question_num - 1, 9) + 1]>>
      [] OTHER -> <<Digits[question_num], ".">>

\* lines 226-231 and 855-860: the labels, each present or Absent
labels_of(cfg, question) ==
    [difficulty |-> IF cfg.include_difficulty_label
                    THEN <<question.original_difficulty>> ELSE Absent,
     category |-> IF cfg.include_category_label
                  THEN <<DictGet(CategoryMappings, question.category, question.category)>>
                  ELSE Absent]

\* enumerate(options) printed as 'letter) option'
option_lines(options) == [i \in DOMAIN options |-> <<chr_a(i - 1), options[i]>>]

\* lines 239-255 and 879-907: the options of a question. raised is an
\* exception the except clause does not catch, caught tells that it caught
\* one, gap that the blank line before the options was already added.
options_block(cfg, question, state) ==
    LET cell == question.options
        none == [raised |-> None, caught |-> FALSE, gap |-> FALSE, options |-> <<>>,
                 rng |-> state]
    IN  IF question.type # "multiple_choice" \/ cell.cell # "str" THEN none
        ELSE CASE cell.json = "invalid" -> [none EXCEPT !.caught = TRUE]
               [] cell.json = "list" ->
                    LET shuffled == IF cfg.shuffle_options THEN shuffle(cell.items, state)
                                    ELSE [list |-> cell.items, rng |-> state]
                    IN  [raised |-> None, caught |-> FALSE, gap |-> TRUE,
                         options |-> option_lines(shuffled.list), rng |-> shuffled.rng]
               [] cell.json = "object" ->
                    \* random.shuffle indexes the dict by position: KeyError
                    IF cfg.shuffle_options /\ Len(cell.items) >= 2
                    THEN [none EXCEPT !.raised = "KeyError", !.rng = NextRng(state)]
                    ELSE [none EXCEPT !.gap = TRUE, !.options = option_lines(cell.items)]
               [] OTHER ->
                    \* a number: len() or enumerate() raises TypeError
                    IF cfg.shuffle_options THEN [none EXCEPT !.caught = TRUE]
                    ELSE [none EXCEPT !.caught = TRUE, !.gap = TRUE]

\* format_question, lines 205-257
format_question(cfg, question, question_num, state) ==
    LET block == options_block(cfg, question, state)
    IN  [raised |-> block.raised,
         warning |-> block.caught,
         rng |-> block.rng,
         text |-> [num_str |-> num_str(GetOr(cfg.numbering_style, "numeric"), question_num),
                   question |-> question.question,
                   labels |-> labels_of(cfg, question),
                   points |-> question.calculated_points,
                   gap |-> block.gap,
                   options |-> block.options]]

\* lines 867-907: one question of the PDF story; the number is always 'i.'
\* and a caught exception is passed over in silence
pdf_question(cfg, question, i, state) ==
    LET block == options_block(cfg, question, state)
    IN  [raised |-> block.raised,
         warning |-> FALSE,
         rng |-> block.rng,
         text |-> [num_str |-> <<Digits[i], ".">>,
                   question |-> question.question,
                   labels |-> labels_of(cfg, question),
                   points |-> question.calculated_points,
                   gap |-> block.gap,
                   options |-> block.options]]

\* lines 280-283 and 844-977: the loop over enumerate(questions, 1); pdf
\* tells which of the two loops it is
RECURSIVE QuestionLoop(_, _, _, _, _)
QuestionLoop(cfg, questions, pdf, i, acc) ==
    IF i > Len(questions) \/ acc.raised # None THEN acc
    ELSE LET r == IF pdf THEN pdf_question(cfg, questions[i], i, acc.rng)
                  ELSE format_question(cfg, questions[i], i, acc.rng)
         IN  QuestionLoop(cfg, questions, pdf, i + 1,
                [raised |-> r.raised,
                 questions |-> Append(acc.questions, r.text),
                 warnings |-> IF r.warning THEN Append(acc.warnings, questions[i].hash)
                              ELSE acc.warnings,
                 rng |-> r.rng])

\* generate_test_content, lines 259-294
generate_test_content(cfg, questions, state) ==
    [total_points |-> total_points(questions)] @@
    QuestionLoop(cfg, questions, FALSE, 1,
                 [raised |-> None, questions |-> <<>>, warnings |-> <<>>, rng |-> state])

\* lines 837-977 of save_pdf: the story built from the questions
pdf_story(cfg, questions, state) ==
    [total_points |-> total_points(questions)] @@
    QuestionLoop(cfg, questions, TRUE, 1,
                 [raised |-> None, questions |-> <<>>, warnings |-> <<>>, rng |-> state])

\* list.index(value): the first position holding value, from 0
\* The position counted from one, as a letter table starting at 'a' = 1 would want.
index_from_one(list, value) ==
    CHOOSE k \in 1 .. Len(list) :
        list[k] = value /\ \A j \in 1 .. k - 1 : list[j] # value

RECURSIVE index(_, _)
index(list, value) ==
    IF Head(list) = value THEN 0 ELSE 1 + index(Tail(list), value)

\* lines 303-326: the answer line of one question
answer_line(question, i) ==
    LET correct == question.correct_answer
        cell == question.options
        line(letter) == [num |-> i, letter |-> letter, answer |-> correct,
                         points |-> question.calculated_points]
        plain == [raised |-> None, line |-> line(Absent)]
    IN  IF question.type # "multiple_choice" THEN plain
        ELSE IF cell.cell # "str" THEN plain
        ELSE CASE cell.json = "invalid" -> plain
               [] cell.json = "list" ->
                    IF correct \in Range(cell.items)
                    THEN [raised |-> None,
                          line |-> line(<<chr_a(index(cell.items, correct))>>)]
                    ELSE plain
               [] cell.json = "object" ->
                    \* 'correct in options' looks at the keys; a dict has no index()
                    IF correct \in Range(cell.items)
                    THEN [raised |-> "AttributeError", line |-> line(Absent)]
                    ELSE plain
               [] OTHER -> plain

\* generate_answer_key, lines 296-328
RECURSIVE AnswerLoop(_, _, _)
AnswerLoop(questions, i, acc) ==
    IF i > Len(questions) \/ acc.raised # None THEN acc
    ELSE LET r == answer_line(questions[i], i)
         IN  AnswerLoop(questions, i + 1,
                        [raised |-> r.raised, lines |-> Append(acc.lines, r.line)])

generate_answer_key(questions) ==
    AnswerLoop(questions, 1, [raised |-> None, lines |-> <<>>])

(***************************************************************************)
(* SpecRender: a process that holds a selection renders it the way         *)
(* generate_test does for output_format 'both' with include_answers: the   *)
(* test content, the PDF, the answer key.                                  *)
(***************************************************************************)
\* An options cell: the kind of the cell read from the CSV ("str" or "nan"),
\* what json.loads makes of the string ("list", "object", "number", "invalid")
\* and the items of the list or the keys of the object.
Options(cell, json, items) == [cell |-> cell, json |-> json, items |-> items]

\* A selected question: a row with its text, options and answer, stamped.
Question(hash, type, options, correct_answer) ==
    Stamp([question |-> <<"text", hash>>, options |-> options,
           correct_answer |-> correct_answer] @@ Row(hash, type, S_easy, "c1"),
          DefaultPoints, S_Easy)

Patterns ==
    {<<Question("h1", "multiple_choice", Options("str", "list", <<"2", "3", "4">>), "3")>>,
     <<Question("h1", "multiple_choice", Options("str", "list", <<"2", "3", "3">>), "3"),
       Question("h2", "short_answer", Options("nan", "none", <<>>), "x")>>,
     <<Question("h1", "multiple_choice", Options("str", "list", <<"2", "3", "4">>), "5"),
       Question("h2", "multiple_choice", Options("str", "list", <<"4", "2">>), "2")>>,
     <<Question("h1", "multiple_choice", Options("str", "invalid", <<>>), "3")>>,
     <<Question("h1", "multiple_choice", Options("str", "object", <<"2", "3">>), "2")>>,
     <<Question("h1", "multiple_choice", Options("str", "number", <<>>), "3"),
       Question("h2", "multiple_choice", Options("nan", "none", <<>>), "3")>>}

\* The first n questions of a pattern repeated over and over.
Cycle(pattern, n) == [i \in 1 .. n |-> pattern[((i - 1) % Len(pattern)) + 1]]

Selections == {Cycle(pattern, n) : pattern \in Patterns, n \in 0 .. MaxQuestions}

QuestionFormats ==
    [numbering_style : {Absent, <<"numeric">>, <<"alphabetic">>, <<"roman">>, <<"bullets">>},
     include_difficulty_label : {FALSE}, include_category_label : {FALSE},
     shuffle_options : BOOLEAN]
    \cup
    [numbering_style : {Absent, <<"numeric">>, <<"alphabetic">>, <<"roman">>, <<"bullets">>},
     include_difficulty_label : {TRUE}, include_category_label : {TRUE},
     shuffle_options : BOOLEAN]

RenderConfigs ==
    {format @@ Config(CHOOSE p \in Profiles : p.points_per_question = Absent,
                      << <<S_Easy, 1>> >>, FALSE, random_seed,
                      [DefaultOutput EXCEPT !.output_format = "both",
                                            !.include_answers = TRUE]) :
        format \in QuestionFormats, random_seed \in Seeds}

InitRender ==
    /\ config \in RenderConfigs
    /\ questions_df = <<>>
    /\ PDF_AVAILABLE = TRUE
    /\ rng = 0
    /\ gpc = "new"
    /\ \E questions \in Selections : selected = [NoSelection EXCEPT !.questions = questions]
    /\ history = <<>>
    /\ out_files = <<>>
    /\ results = <<>>
    /\ variant_num = 0
    /\ CryptIdle

Rendered(layout, content, body) ==
    [layout |-> layout, content |-> content, questions |-> selected.questions,
     body |-> body]

\* lines 1036 and 1086-1088: generate_test_content, then save_test
RenderTest ==
    /\ gpc = "ready"
    /\ LET r == generate_test_content(config, selected.questions, rng)
           content == [total_points |-> r.total_points, questions |-> r.questions,
                       warnings |-> r.warnings]
       IN  /\ rng' = r.rng
           /\ IF r.raised # None
              THEN gpc' = "raised" /\ UNCHANGED <<out_files, results>>
              ELSE /\ gpc' = "markdown"
                   /\ out_files' = SetKey(out_files, PlainNames(config.output_filename).md,
                                          Rendered("markdown", "test", content))
                   /\ results' = SetKey(results, PlainKeys.md,
                                        PlainNames(config.output_filename).md)
    /\ UNCHANGED <<config, questions_df, PDF_AVAILABLE, selected, history, variant_num>>
    /\ UNCHANGED <<cryptVars, hashVars>>

\* lines 1091-1095: save_pdf(test_content, pdf_filename, questions); an
\* exception inside save_pdf is caught by its line 1002 and no file is built
RenderPdf ==
    /\ gpc = "markdown"
    /\ LET r == pdf_story(config, selected.questions, rng)
           content == [total_points |-> r.total_points, questions |-> r.questions,
                       warnings |-> r.warnings]
       IN  /\ rng' = r.rng
           /\ IF r.raised # None
              THEN UNCHANGED <<out_files, results>>
              ELSE /\ out_files' = SetKey(out_files, PlainNames(config.output_filename).pdf,
                                          Rendered("pdf", "test", content))
                   /\ results' = SetKey(results, PlainKeys.pdf,
                                        PlainNames(config.output_filename).pdf)
    /\ gpc' = "pdf"
    /\ UNCHANGED <<config, questions_df, PDF_AVAILABLE, selected, history, variant_num>>
    /\ UNCHANGED <<cryptVars, hashVars>>

\* lines 1104-1111: generate_answer_key, then save_test
RenderAnswers ==
    /\ gpc = "pdf"
    /\ LET r == generate_answer_key(selected.questions)
       IN  IF r.raised # None
           THEN gpc' = "raised" /\ UNCHANGED <<out_files, results>>
           ELSE /\ gpc' = "answers"
                /\ out_files' = SetKey(out_files,
                                       PlainNames(config.output_filename).answers_md,
                                       Rendered("markdown", "answers", r.lines))
                /\ results' = SetKey(results, PlainKeys.answers_md,
                                     PlainNames(config.output_filename).answers_md)
    /\ UNCHANGED <<config, questions_df, PDF_AVAILABLE, rng, selected, history, variant_num>>
    /\ UNCHANGED <<cryptVars, hashVars>>

\* lines 1113-1118: save_pdf(answer_content, pdf_answer_filename, questions)
\* builds its story from the questions once more
RenderAnswersPdf ==
    /\ gpc = "answers"
    /\ LET r == pdf_story(config, selected.questions, rng)
           content == [total_points |-> r.total_points, questions |-> r.questions,
                       warnings |-> r.warnings]
       IN  /\ rng' = r.rng
           /\ IF r.raised # None
              THEN UNCHANGED <<out_files, results>>
              ELSE /\ out_files' = SetKey(out_files,
                                          PlainNames(config.output_filename).answers_pdf,
                                          Rendered("pdf", "test", content))
                   /\ results' = SetKey(results, PlainKeys.answers_pdf,
                                        PlainNames(config.output_filename).answers_pdf)
    /\ gpc' = "done"
    /\ UNCHANGED <<config, questions_df, PDF_AVAILABLE, selected, history, variant_num>>
    /\ UNCHANGED <<cryptVars, hashVars>>

NextRender ==
    \/ Construct
    \/ RenderTest
    \/ RenderPdf
    \/ RenderAnswers
    \/ RenderAnswersPdf

SpecRender == InitRender /\ [][NextRender]_vars

(***************************************************************************)
(* SpecPaths: the same calls as SpecRender, for an output_filename with    *)
(* and without the '.md' extension.                                        *)
(***************************************************************************)
OutputFilenames == {<<"test", ".md">>, <<"test", ".txt">>, <<"test">>}

InitPaths ==
    /\ \E c \in RenderConfigs, output_filename \in OutputFilenames :
          /\ c.numbering_style = Absent
          /\ ~c.include_difficulty_label
          /\ ~c.shuffle_options
          /\ config = [c EXCEPT !.output_filename = output_filename]
    /\ questions_df = <<>>
    /\ PDF_AVAILABLE = TRUE
    /\ rng = 0
    /\ gpc = "new"
    /\ \E questions \in Selections : selected = [NoSelection EXCEPT !.questions = questions]
    /\ history = <<>>
    /\ out_files = <<>>
    /\ results = <<>>
    /\ variant_num = 0
    /\ CryptIdle

SpecPaths == InitPaths /\ [][NextRender]_vars

(***************************************************************************)
(* rehash_questions.py: generate_hash, lines 12-20. A text is a sequence   *)
(* of characters.                                                          *)
(***************************************************************************)
\* \s of the regular expressions, and what str.strip() removes
Whitespace == {" ", "\t"}

\* \w of the regular expressions
IsWordChar(c) == c \in {"a", "A", "b", "_"}

\* str.lower()
lower(text) == [i \in DOMAIN text |-> LowerChar(text[i])]

RECURSIVE lstrip(_)
lstrip(text) ==
    IF text # <<>> /\ Head(text) \in Whitespace THEN lstrip(Tail(text)) ELSE text

RECURSIVE rstrip(_)
rstrip(text) ==
    IF text # <<>> /\ Last(text) \in Whitespace THEN rstrip(Front(text)) ELSE text

\* str.strip()
strip(text) == rstrip(lstrip(text))

\* re.sub(r'[^\w\s]', '', text), line 15
remove_punctuation(text) ==
    LET kept(c) == IsWordChar(c) \/ c \in Whitespace
    IN  SelectSeq(text, kept)

\* re.sub(r'\s+', ' ', text), line 16
RECURSIVE collapse_whitespace(_)
collapse_whitespace(text) ==
    IF text = <<>> THEN <<>>
    ELSE IF Head(text) \in Whitespace
    THEN <<" ">> \o collapse_whitespace(lstrip(text))
    ELSE <<Head(text)>> \o collapse_whitespace(Tail(text))

\* hexdigest()[:8], line 20
HashLen == 8

HexDigits ==
    <<"0", "1", "2", "3", "4", "5", "6", "7", "8", "9", "a", "b", "c", "d", "e", "f">>

\* hashlib.md5(text).hexdigest()[:8], lines 19-20: eight hexadecimal digits
\* that the text determines. The digest of the model tells apart all the
\* cleaned texts of the model, as MD5 does but for accidental collisions.
RECURSIVE Md5Number(_)
Md5Number(text) ==
    IF text = <<>> THEN 1
    ELSE LET code == CASE Head(text) = "a" -> 1
                       [] Head(text) = " " -> 2
                       [] OTHER -> 3
         IN  (code + 4 * Md5Number(Tail(text))) % (16 ^ (HashLen - 1))

md5_hexdigest_8(text) ==
    [i \in 1 .. HashLen |->
        HexDigits[((Md5Number(text) \div (16 ^ (HashLen - i))) % 16) + 1]]

generate_hash(question_text) ==
    LET cleaned_text == remove_punctuation(strip(lower(question_text)))
    IN  md5_hexdigest_8(collapse_whitespace(cleaned_text))

(***************************************************************************)
(* SpecHash: generate_hash applied to one question text.                   *)
(***************************************************************************)
Chars == {"a", "A", " ", "\t", "?"}

Texts == SeqsUpTo(Chars, MaxText)

InitHash ==
    /\ csv = NoCsv
    /\ \E question_text \in Texts : hcall = [op |-> "new", question_text |-> question_text]
    /\ CryptOff
    /\ GenOff

HashText ==
    /\ hcall.op = "new"
    /\ hcall' = [op |-> "generate_hash", question_text |-> hcall.question_text,
                 ret |-> generate_hash(hcall.question_text)]
    /\ UNCHANGED <<csv, cryptVars, genVars>>

SpecHash == InitHash /\ [][HashText]_vars

(***************************************************************************)
(* rehash_csv_file, lines 22-58. A question file is its header (the column *)
(* names), its data rows (each the sequence of its fields, which may be    *)
(* fewer or more than the columns) and its line terminator. A field is a   *)
(* sequence of characters.                                                 *)
(***************************************************************************)
\* Python's None as a field of a row dict
NoneField == <<"None">>

\* csv.DictReader, lines 32-34: the dict of one row. values follows the
\* header, a missing field being None (restval); rest holds the fields
\* beyond the header, which DictReader stores under the key None (restkey).
DictReader(header, row) ==
    [values |-> [j \in DOMAIN header |-> IF j <= Len(row) THEN row[j] ELSE NoneField],
     rest |-> SubSeq(row, Len(header) + 1, Len(row))]

\* The position of a column in the header, 0 when the header lacks it.
ColumnOf(header, name) ==
    IF \E j \in DOMAIN header : header[j] = name
    THEN CHOOSE j \in DOMAIN header :
            header[j] = name /\ \A k \in 1 .. (j - 1) : header[k] # name
    ELSE 0

\* lines 43-50: one row of the update loop
rehash_row(header, row) ==
    LET h == ColumnOf(header, "hash")
        q == ColumnOf(header, "question")
    IN  IF h = 0 \/ q = 0 THEN row
        ELSE [row EXCEPT !.values[h] = generate_hash(row.values[q])]

\* csv.DictWriter.writerow: None is written as the empty field
written_row(row) ==
    [j \in DOMAIN row.values |-> IF row.values[j] = NoneField THEN <<>> ELSE row.values[j]]

rehash_csv_file(file) ==
    LET same(ret) == [csv |-> file, ret |-> ret, raised |-> None]
        rows == [i \in DOMAIN file.rows |-> DictReader(file.header, file.rows[i])]
        hashed == ColumnOf(file.header, "hash") # 0 /\ ColumnOf(file.header, "question") # 0
        no_text == {i \in DOMAIN rows :
                        rows[i].values[ColumnOf(file.header, "question")] = NoneField}
        surplus == {i \in DOMAIN rows : rows[i].rest # <<>>}
        updated == [i \in DOMAIN rows |-> written_row(rehash_row(file.header, rows[i]))]
    IN  IF ~file.exists THEN same(<<0>>)
        ELSE IF file.rows = <<>> \/ file.header = <<>> THEN same(<<0>>)
        ELSE IF hashed /\ no_text # {}
        THEN \* line 45: generate_hash(None) has no lower()
             [csv |-> file, ret |-> Absent, raised |-> "AttributeError"]
        ELSE IF surplus # {}
        THEN \* line 53 has truncated the file; line 56 writes the rows before
             \* the first one whose dict has the key None, then raises
             LET first == CHOOSE i \in surplus : \A k \in surplus : i <= k
             IN  [csv |-> [exists |-> TRUE, header |-> file.header,
                           rows |-> SubSeq(updated, 1, first - 1),
                           lineterminator |-> "\r\n"],
                  ret |-> Absent, raised |-> "ValueError"]
        ELSE [csv |-> [exists |-> TRUE, header |-> file.header, rows |-> updated,
                       lineterminator |-> "\r\n"],
              ret |-> <<Len(file.rows)>>, raised |-> None]

(***************************************************************************)
(* SpecRehash: rehash_csv_file applied to one question file.               *)
(***************************************************************************)
StaleHash == [i \in 1 .. HashLen |-> "0"]

\* Data rows: a stale hash, a hash already right, a row without its last
\* field, a row with the hash only, and a row with one field too many.
CsvRowKinds ==
    {<<StaleHash, <<"A", "?">>, <<"m">>>>,
     <<generate_hash(<<"a">>), <<"a">>, <<"s">>>>,
     <<StaleHash, <<"a", " ", "?">>>>,
     <<StaleHash>>,
     <<StaleHash, <<"a">>, <<"m">>, <<"b">>>>}

CsvFiles ==
    {NoCsv}
    \cup [exists : {TRUE},
          header : {<<"hash", "question", "type">>, <<"id", "question", "type">>},
          rows : SeqsUpTo(CsvRowKinds, MaxRows),
          lineterminator : {"\n", "\r\n"}]

InitRehash ==
    /\ csv \in CsvFiles
    /\ hcall = [op |-> "new"]
    /\ CryptOff
    /\ GenOff

\* lines 84-86: one call of rehash_csv_file
RehashFile ==
    /\ hcall.op = "new"
    /\ LET r == rehash_csv_file(csv)
       IN  /\ csv' = r.csv
           /\ hcall' = [op |-> "rehash_csv_file", before |-> csv, ret |-> r.ret,
                        raised |-> r.raised]
    /\ UNCHANGED <<cryptVars, genVars>>

SpecRehash == InitRehash /\ [][RehashFile]_vars

(***************************************************************************)
(* Claims about the scripts, checked under SpecCrypt.                      *)
(***************************************************************************)
ErrorLines ==
    {"[ERROR] Failed to decrypt: Incorrect password or corrupted file",
     "[ERROR] Failed to decrypt: str(e)",
     "[ERROR] Invalid encrypted file (too small)"}

\* The call in `last` is decrypt_file on an intact output of encrypt_file.
DecryptOfEncrypted == last.op = "decrypt" /\ last.origin.known

\* C1: a file produced by encrypt_file and given to decrypt_file with the
\* same password (no I/O call failing) is decrypted successfully, and the
\* output file holds exactly the bytes encrypt_file read, the empty content
\* included.
C1_RoundTrip ==
    (DecryptOfEncrypted /\ last.origin.password = last.password
        /\ last.fault = "none")
    => /\ last.ret
       /\ last.written = [exists |-> TRUE, data |-> last.origin.data]

\* C1 witness: an empty file went through encrypt_file and decrypt_file
\* with the same password.
C1_Witness ==
    /\ DecryptOfEncrypted
    /\ last.origin.password = last.password
    /\ last.origin.data = <<>>
    /\ last.ret
    /\ last.written = [exists |-> TRUE, data |-> <<>>]

\* C2: decrypt_file with a password other than the one the file was encrypted
\* with prints an error line, returns False and leaves the file system as it
\* was: no output file is written and, in place, the encrypted file stays.
C2_WrongPasswordRejected ==
    (DecryptOfEncrypted /\ last.origin.password # last.password)
    => /\ ~last.ret
       /\ last.msg \in ErrorLines
       /\ ~last.fs_changed
       /\ last.source_kept

\* C2 witness: an in-place decrypt_file call with the wrong password.
C2_Witness ==
    /\ DecryptOfEncrypted
    /\ last.origin.password # last.password
    /\ last.in_place
    /\ last.cause = InvalidToken

\* C3: a decryption run in which a file failed authentication ends with a
\* non-zero exit status.
C3_AuthFailureExitsNonZero ==
    (pc = "idle" /\ args.prog = "decrypt" /\ exit_code # -1 /\ auth_failed)
    => exit_code # 0

(***************************************************************************)
(* Claims about select_questions, checked under SpecSelect and SpecRerun.  *)
(***************************************************************************)
\* select_questions has returned a list.
Returned == gpc = "returned" /\ selected.raised = None

\* The configured tiers as <<label, requested count>>.
Tiers == config.difficulty_distribution

\* C4: the list select_questions returns holds at most one question per
\* content hash, over all configured tiers together.
C4_OnePerHash ==
    Returned =>
        \A i, j \in DOMAIN selected.questions :
            i # j => selected.questions[i].hash # selected.questions[j].hash

\* C5: after the type-preference dedup no two kept rows share a hash.
C5_DedupNoSharedHash ==
    gpc = "returned" =>
        \A i, j \in DOMAIN selected.unique_questions :
            i # j => selected.unique_questions[i].hash # selected.unique_questions[j].hash

\* C5 witness: the table held two rows of one hash, both of a preferred type
\* and of a kept category, and the dedup kept one of them and another row.
C5_Witness ==
    /\ gpc = "returned"
    /\ config.categories = <<"*">>
    /\ config.preferred_question_types = Absent
    /\ \E i, j \in DOMAIN questions_df :
          i < j /\ questions_df[i].hash = questions_df[j].hash
    /\ Len(selected.unique_questions) = 2
    /\ Len(questions_df) = 3

\* The deduplicated candidates of a tier: the kept rows whose normalized
\* difficulty equals the tier's normalized label.
Candidates(label) ==
    {i \in DOMAIN selected.unique_questions :
        normalize(selected.unique_questions[i].difficulty) = normalize(label)}

\* The questions returned for a tier.
ReturnedFor(label) ==
    {i \in DOMAIN selected.questions : selected.questions[i].original_difficulty = label}

\* C6: for every configured tier the number of questions returned for it is
\* min(requested count, number of deduplicated candidates of the tier).
C6_TierCountIsMin ==
    Returned =>
        \A t \in DOMAIN Tiers :
            Cardinality(ReturnedFor(Tiers[t][1]))
                = Min(Tiers[t][2], Cardinality(Candidates(Tiers[t][1])))

\* C6 witness: a tier asked for two questions, had one candidate whose
\* difficulty is written in another case than the label, and got that one.
C6_Witness ==
    /\ Returned
    /\ \E t \in DOMAIN Tiers :
          /\ Tiers[t][2] = 2
          /\ Cardinality(Candidates(Tiers[t][1])) = 1
          /\ Cardinality(ReturnedFor(Tiers[t][1])) = 1
          /\ \E i \in Candidates(Tiers[t][1]) :
                selected.unique_questions[i].difficulty # Tiers[t][1]

\* C7: with a seed configured, two runs on the same configuration and the
\* same table return the same question sequence in the same order.
C7_SameSeedSameSelection ==
    (Len(history) = 2 /\ config.random_seed # Absent)
    => history[1].questions = history[2].questions

\* The rank the ordering goes by: trivial < easy < medium < hard < very_hard,
\* labels compared without regard to case and to space against underscore;
\* 0 for a label outside the five.
RankOf(label) ==
    LET l == normalize(label)
    IN  CASE l = S_trivial -> 1
          [] l = S_easy -> 2
          [] l = S_medium -> 3
          [] l = S_hard -> 4
          [] l = S_very_hard -> 5
          [] OTHER -> 0

\* The questions of a list that carry rank r, in the list's order.
OfRank(questions, r) ==
    LET has_rank(q) == RankOf(q.original_difficulty) = r
    IN  SelectSeq(questions, has_rank)

\* C8: with shuffle_questions off the returned list is in non-decreasing
\* rank order, and questions of equal rank keep the order they had before
\* the sort.
C8_SortedStable ==
    (Returned /\ ~config.shuffle_questions) =>
        /\ \A i, j \in DOMAIN selected.questions :
              LET ri == RankOf(selected.questions[i].original_difficulty)
                  rj == RankOf(selected.questions[j].original_difficulty)
              IN  (i < j /\ ri > 0 /\ rj > 0) => ri <= rj
        /\ \A r \in 0 .. 5 : OfRank(selected.questions, r) = OfRank(selected.sampled, r)

\* C8 witness: a hard question was sampled before two distinct easy ones and
\* the sort moved it behind them.
C8_Witness ==
    /\ Returned
    /\ ~config.shuffle_questions
    /\ Len(selected.sampled) = 3
    /\ RankOf(selected.sampled[1].original_difficulty) = 4
    /\ RankOf(selected.sampled[2].original_difficulty) = 2
    /\ selected.sampled[2] # selected.sampled[3]
    /\ selected.questions =
          <<selected.sampled[2], selected.sampled[3], selected.sampled[1]>>

\* C9: every returned question carries calculated_points equal to the
\* configured points_per_question and original_difficulty equal, letter for
\* letter, to the label of a configured tier its difficulty matches; the
\* total of the test is points_per_question times the number of questions.
C9_Stamped ==
    Returned =>
        LET points_per_question == GetOr(config.points_per_question, DefaultPoints)
        IN  /\ \A i \in DOMAIN selected.questions :
                  LET q == selected.questions[i]
                  IN  /\ q.calculated_points = points_per_question
                      /\ \E t \in DOMAIN Tiers :
                            /\ q.original_difficulty = Tiers[t][1]
                            /\ normalize(q.difficulty) = normalize(Tiers[t][1])
            /\ total_points(selected.questions)
                  = points_per_question * Len(selected.questions)

\* C9 witness: two questions returned under points_per_question = 2, one of
\* them for a tier whose label is written otherwise than its difficulty.
C9_Witness ==
    /\ Returned
    /\ config.points_per_question = <<2>>
    /\ Len(selected.questions) = 2
    /\ total_points(selected.questions) = 4
    /\ \E i \in DOMAIN selected.questions :
          selected.questions[i].original_difficulty # selected.questions[i].difficulty

(***************************************************************************)
(* Claims about generate_test, checked under SpecGen.                      *)
(***************************************************************************)
\* C10: for every test and every variant generate_test writes, the Markdown
\* artifact and the PDF artifact render the same question sequence.
C10_MarkdownAndPdfAgree ==
    \A f \in DOMAIN out_files :
        LET pdf == Replace(f, ".md", <<".pdf">>)
        IN  (/\ out_files[f].layout = "markdown"
             /\ out_files[f].content = "test"
             /\ pdf \in DOMAIN out_files)
            => out_files[pdf].questions = out_files[f].questions
(***************************************************************************)
(* Claims about the renderings, checked under SpecRender.                  *)
(***************************************************************************)
AnswersFile == PlainNames(config.output_filename).answers_md

TestFile == PlainNames(config.output_filename).md

PdfFile == PlainNames(config.output_filename).pdf

\* The positions of an option list that hold the value, counted from zero.
FirstIndex(items, value) ==
    CHOOSE k \in 0 .. Len(items) - 1 :
        items[k + 1] = value /\ \A j \in 0 .. k - 1 : items[j + 1] # value

\* C11: in the answer key, the line of every multiple-choice question whose
\* correct_answer is in its option list, first at index k, shows the k-th
\* letter, the correct value and the question's points.
C11_AnswerLetter ==
    AnswersFile \in DOMAIN out_files =>
        LET lines == out_files[AnswersFile].body
            questions == out_files[AnswersFile].questions
        IN  /\ Len(lines) = Len(questions)
            /\ \A i \in DOMAIN questions :
                   LET q == questions[i]
                   IN  (/\ q.type = "multiple_choice"
                        /\ q.options.json = "list"
                        /\ q.correct_answer \in Range(q.options.items))
                       => lines[i] =
                            [num |-> i,
                             letter |-> <<Letters[FirstIndex(q.options.items,
                                                             q.correct_answer) + 1]>>,
                             answer |-> q.correct_answer,
                             points |-> q.calculated_points]

\* Options ["2","3","4"] with correct answer "3": the line reads b) 3 with
\* the points; and a list that repeats the correct value is in the key too.
C11_Witness ==
    /\ AnswersFile \in DOMAIN out_files
    /\ \E i \in DOMAIN out_files[AnswersFile].questions :
          /\ out_files[AnswersFile].questions[i].options = Options("str", "list", <<"2", "3", "4">>)
          /\ out_files[AnswersFile].questions[i].correct_answer = "3"
          /\ out_files[AnswersFile].body[i] =
                [num |-> i, letter |-> <<"b">>, answer |-> "3", points |-> DefaultPoints]

\* C12: the Markdown rendering and the PDF rendering number the k-th question
\* identically and by the configured numbering_style: numeric 'k.',
\* alphabetic the k-th letter and ')', roman the k-th numeral of i..x, and
\* 'x' for every k above 10.
C12_SameNumbering ==
    (TestFile \in DOMAIN out_files /\ PdfFile \in DOMAIN out_files) =>
        LET markdown == out_files[TestFile].body.questions
            pdf == out_files[PdfFile].body.questions
            style == GetOr(config.numbering_style, "numeric")
        IN  /\ Len(markdown) = Len(pdf)
            /\ \A k \in DOMAIN markdown :
                  /\ markdown[k].num_str = pdf[k].num_str
                  /\ style = "numeric" => markdown[k].num_str = <<Digits[k], ".">>
                  /\ style = "alphabetic" => markdown[k].num_str = <<Letters[k], ")">>
                  /\ style = "roman" =>
                        markdown[k].num_str = <<IF k <= 10 THEN roman_nums[k] ELSE "x">>

(***************************************************************************)
(* Claims about the batches, checked under SpecCrypt.                      *)
(***************************************************************************)
\* The paths the calls of this run were made on.
Attempted == {batch.calls[i].path : i \in DOMAIN batch.calls}

Succeeded == {i \in DOMAIN batch.calls : batch.calls[i].ret}

DecryptFinished == pc = "idle" /\ args.prog = "decrypt" /\ report # None

\* C13: the decryption batch attempts every matching encrypted file exactly
\* once; after a failure the remaining files stay to be processed; the final
\* tally is the number of files that decrypted; success is reported only if
\* every file succeeded.
C13_DecryptBatch ==
    /\ (pc = "decrypt_loop" \/ DecryptFinished) =>
          LET matched == {<<args.input_dir, name>> : name \in batch.files}
              remaining == {<<args.input_dir, name>> : name \in todo}
          IN  /\ Attempted \cup remaining = matched
              /\ Attempted \cap remaining = {}
              /\ Len(batch.calls) = Cardinality(Attempted)
              /\ count = Cardinality(Succeeded)
              /\ total_files = Cardinality(matched)
    /\ DecryptFinished =>
          /\ todo = {}
          /\ (report = "[SUCCESS] All files decrypted successfully!"
                 => Succeeded = DOMAIN batch.calls)

\* A finished batch of two files whose first file failed authentication and
\* whose second file was decrypted: the tally is 1 of 2 and a warning.
C13_Witness ==
    /\ DecryptFinished
    /\ Len(batch.calls) = 2
    /\ batch.calls[1].cause = InvalidToken /\ ~batch.calls[1].ret
    /\ batch.calls[2].ret
    /\ count = 1 /\ total_files = 2
    /\ report = "[WARNING] Some files failed to decrypt."

\* C14: the encryption batch reports full success only if every file it
\* attempted to encrypt was encrypted, mappings.yaml included when
\* --include-mappings is given.
C14_EncryptSuccessMeansAll ==
    (/\ pc = "idle" /\ args.prog = "encrypt"
     /\ report = "[SUCCESS] All files encrypted successfully!")
    => \A i \in DOMAIN batch.calls : batch.calls[i].ret

\* The step is the start of a script whose password is empty, whose input
\* directory does not exist or holds no matching file.
RefusedStart ==
    /\ pc = "idle" /\ nruns' = nruns + 1
    /\ \/ args'.password = 0
       \/ args'.input_dir \notin dirs'
       \/ glob(fs, args'.input_dir,
               IF args'.prog = "encrypt" THEN "cat_*.csv" ELSE "*.encrypted") = {}

\* C15: both scripts exit with a non-zero status when the password is empty,
\* when the input directory does not exist or when it holds no matching
\* file, and no file is encrypted, decrypted or deleted.
C15_RefusedRunsExitNonZero ==
    [][RefusedStart =>
          /\ pc' = "idle" /\ exit_code' > 0
          /\ fs' = fs /\ batch'.calls = <<>>]_vars

\* The last script was refused, with nothing done.
Refused(prog) ==
    /\ pc = "idle" /\ args.prog = prog /\ exit_code = 1 /\ batch = NoBatch

\* encrypt_questions.py was refused with a password given, over a directory
\* that exists and holds files, none of them matching cat_*.csv.
C15_Witness ==
    /\ Refused("encrypt") /\ args.password # 0
    /\ args.input_dir \in dirs /\ glob(fs, args.input_dir, "cat_*.csv") = {}
    /\ DOMAIN fs # {}

(***************************************************************************)
(* Claims about file names, checked under SpecNames.                       *)
(***************************************************************************)
\* C16: a source file named cat_<name>.csv or mappings.yaml, encrypted and
\* then decrypted (both in place, or both through output directories),
\* comes back under its original file name.
C16_NameRoundTrip ==
    (/\ last.op = "decrypt" /\ last.ret
     /\ last.origin.known /\ last.origin.in_place = last.in_place)
    => last.output_file[2] = last.origin.source[2]

(***************************************************************************)
(* Further claims about the scripts, checked under SpecCrypt.              *)
(***************************************************************************)
\* C17: when decryption of a file fails on the cipher's authentication error
\* (wrong key or corrupted ciphertext), the error reported for the file is
\* 'Incorrect password or corrupted file'.
C17_AuthFailureMessage ==
    (last.op = "decrypt" /\ last.cause = InvalidToken)
    => last.msg = "[ERROR] Failed to decrypt: Incorrect password or corrupted file"

(***************************************************************************)
(* Further claims about the renderings, checked under SpecRender.          *)
(***************************************************************************)
\* The options value of a multiple-choice question is malformed: no value,
\* text that is not JSON, or JSON that is not a list.
Malformed(question) ==
    /\ question.type = "multiple_choice"
    /\ \/ question.options.cell # "str"
       \/ question.options.json # "list"

\* C18: a malformed options value on a multiple-choice question never aborts
\* a run: format_question and generate_answer_key return normally, the
\* question is rendered without an options list and a warning is emitted.
C18_MalformedOptionsRecovered ==
    /\ gpc # "raised"
    /\ TestFile \in DOMAIN out_files =>
          LET content == out_files[TestFile].body
          IN  \A k \in DOMAIN content.questions :
                Malformed(out_files[TestFile].questions[k]) =>
                    /\ content.questions[k].options = <<>>
                    /\ out_files[TestFile].questions[k].hash \in Range(content.warnings)

(***************************************************************************)
(* Claims about the variants, checked under SpecGen.                       *)
(***************************************************************************)
\* The variants whose artifacts generate_test has written so far.
Written ==
    IF ~config.generate_variants \/ gpc \notin {"variants", "done"} THEN {}
    ELSE 1 .. (variant_num - 1)

NameSet(n) ==
    {VariantNames(config, n).md, VariantNames(config, n).pdf,
     VariantNames(config, n).answers_md, VariantNames(config, n).answers_pdf}

\* Each variant written so far had a selection of its own, the variants'
\* file names are pairwise distinct, and each variant's Markdown files still
\* hold that variant's selection; at the end the variants are 1..N.
VariantsKeptApart ==
    /\ Len(history) >= Cardinality(Written)
    /\ (gpc = "done" /\ config.generate_variants) => Written = 1 .. config.num_variants
    /\ \A m \in Written : \A n \in Written : m # n => NameSet(m) \cap NameSet(n) = {}
    /\ WantsMarkdown(config) =>
          \A n \in Written :
             /\ VariantNames(config, n).md \in DOMAIN out_files
             /\ out_files[VariantNames(config, n).md].questions = history[n].questions
             /\ config.include_answers =>
                   /\ VariantNames(config, n).answers_md \in DOMAIN out_files
                   /\ out_files[VariantNames(config, n).answers_md].questions
                         = history[n].questions

\* C19 as stated: with generate_variants and num_variants = N, generate_test
\* runs a selection of its own for each variant 1..N and writes N sets of
\* artifacts with pairwise distinct file names, none overwriting another's.
C19_VariantsDistinct == VariantsKeptApart

\* C19 amended: the same, for a variant_suffix template that contains the
\* {n} placeholder, as the default '_variant_{n}' does.
C19_VariantsDistinctWithPlaceholder ==
    "{n}" \in Range(GetOr(config.variant_suffix, <<"_variant_", "{n}">>))
    => VariantsKeptApart

\* Two variants were written from two different selections under a template
\* with the placeholder, and both Markdown files are there.
C19_Witness ==
    /\ gpc = "done" /\ config.generate_variants /\ config.num_variants = 2
    /\ "{n}" \in Range(GetOr(config.variant_suffix, <<"_variant_", "{n}">>))
    /\ Len(history) = 2 /\ history[1].questions # history[2].questions
    /\ VariantNames(config, 1).md \in DOMAIN out_files
    /\ VariantNames(config, 2).md \in DOMAIN out_files
    /\ out_files[VariantNames(config, 2).md].questions = history[2].questions

(***************************************************************************)
(* A claim about overwriting, checked under SpecCrypt.                     *)
(***************************************************************************)
\* The user agreed to overwriting: the overwrite flag, or yes at the prompt.
Agreed == args.overwrite \/ args.response \in {"y", "yes"}

\* C20: in each script, a run that is not in place overwrites a file already
\* present in its output directory only after the user confirmed at the
\* overwrite prompt or passed the overwrite flag; when the user declines,
\* the process stops before writing any file.
C20_OverwriteOnlyAfterConsent ==
    /\ ~args.in_place =>
          \A i \in DOMAIN batch.calls :
              (batch.calls[i].ret /\ batch.calls[i].existed) => Agreed
    /\ (args.response # "" /\ ~Agreed) => (pc = "idle" /\ batch = NoBatch)

\* The preference list select_questions works with (lines 133-134).
PreferredTypes == GetOr(config.preferred_question_types, DefaultPreferredTypes)

\* The positions of the category-filtered table that hold hash h with a type
\* of the preference list.
Eligible(h) ==
    {i \in DOMAIN selected.filtered_df :
        /\ selected.filtered_df[i].hash = h
        /\ selected.filtered_df[i].type \in Range(PreferredTypes)}

\* The first position of Eligible(h), in table order, among those whose type
\* is the earliest listed type that hash h has.
FirstOfEarliestType(h) ==
    LET p == CHOOSE p \in DOMAIN PreferredTypes :
                /\ \E i \in Eligible(h) : selected.filtered_df[i].type = PreferredTypes[p]
                /\ \A q \in 1..(p - 1) :
                      \A i \in Eligible(h) : selected.filtered_df[i].type # PreferredTypes[q]
        rows == {i \in Eligible(h) : selected.filtered_df[i].type = PreferredTypes[p]}
    IN  CHOOSE i \in rows : \A j \in rows : i <= j

\* C21: after the type-preference dedup, every hash that has a
\* category-filtered row of a listed type has exactly one kept row, and that
\* row is the first one in table order among the rows of the hash that have
\* the earliest listed type present for the hash.
C21_FirstRowOfEarliestType ==
    gpc = "returned" =>
        \A h \in {selected.filtered_df[i].hash : i \in DOMAIN selected.filtered_df} :
            Eligible(h) # {} =>
                /\ Cardinality({k \in DOMAIN selected.unique_questions :
                                    selected.unique_questions[k].hash = h}) = 1
                /\ \A k \in DOMAIN selected.unique_questions :
                      selected.unique_questions[k].hash = h =>
                          selected.unique_questions[k]
                              = selected.filtered_df[FirstOfEarliestType(h)]

\* C21 witness: hash h1 has a row of a later listed type first in the table,
\* then two different rows of its earliest listed type, and the dedup kept
\* the first of those two.
C21_Witness ==
    /\ gpc = "returned"
    /\ Len(selected.filtered_df) = 3
    /\ \A i \in 1..3 : selected.filtered_df[i].hash = "h1"
    /\ selected.filtered_df[1].type = "short_answer"
    /\ selected.filtered_df[2].type = "multiple_choice"
    /\ selected.filtered_df[3].type = "multiple_choice"
    /\ selected.filtered_df[2] # selected.filtered_df[3]
    /\ PreferredTypes = DefaultPreferredTypes
    /\ selected.unique_questions = <<selected.filtered_df[2]>>

\* C22: no question whose type is absent from the preference list appears in
\* what select_questions returns, even when it is the only row of its hash.
C22_OnlyPreferredTypes ==
    gpc = "returned" =>
        \A i \in DOMAIN selected.questions :
            selected.questions[i].type \in Range(PreferredTypes)

\* C22 witness: the filtered table held a row of an unlisted type that was
\* the only row of its hash, and the call returned other questions.
C22_Witness ==
    /\ Returned
    /\ selected.questions # <<>>
    /\ \E i \in DOMAIN selected.filtered_df :
          /\ selected.filtered_df[i].type \notin Range(PreferredTypes)
          /\ normalize(selected.filtered_df[i].difficulty) = normalize(Tiers[1][1])
          /\ \A j \in DOMAIN selected.filtered_df :
                selected.filtered_df[j].hash = selected.filtered_df[i].hash => j = i

\* The keys the requested names stand for: a name that is a key of the
\* mapping stands for itself, a name that is a label stands for the key
\* carrying that label, any other name stands for itself.
RequestedKeys ==
    {name \in Range(config.categories) :
        \A m \in DOMAIN CategoryMappings : CategoryMappings[m][2] # name}
    \cup {CategoryMappings[m][1] : m \in {m \in DOMAIN CategoryMappings :
                CategoryMappings[m][2] \in Range(config.categories)}}

\* The rows of the table, in table order, that the request asks for.
RequestedRows ==
    LET requested(row) ==
            "*" \in Range(config.categories) \/ row.category \in RequestedKeys
    IN  SelectSeq(questions_df, requested)

\* C23: filter_questions_by_categories keeps exactly the rows whose category
\* key is one of the requested keys, a requested name being a key or the
\* label of a key; with the wildcard among the names every row is kept.
C23_CategoryFilter ==
    gpc = "returned" => selected.filtered_df = RequestedRows

\* C23 witness: the only requested name is a label, the table holds rows of
\* the key that carries the label and rows of another key, and only the
\* former were kept.
C23_Witness ==
    /\ gpc = "returned"
    /\ config.categories = <<"Label 2">>
    /\ \E i, j \in DOMAIN questions_df :
          questions_df[i].category = "c1" /\ questions_df[j].category = "c2"
    /\ selected.filtered_df # <<>>
    /\ \A i \in DOMAIN selected.filtered_df : selected.filtered_df[i].category = "c2"

\* C24: for every table, category filter and preference list, a configured
\* tier without candidates is skipped and select_questions returns normally
\* with the questions of the other tiers, also when no row at all survives
\* the category filter and the dedup.
C24_EmptyTierSkipped ==
    gpc = "returned" =>
        /\ selected.raised = None
        /\ \A t \in DOMAIN Tiers :
              Cardinality(ReturnedFor(Tiers[t][1]))
                  = Min(Tiers[t][2], Cardinality(Candidates(Tiers[t][1])))

\* C25: with include_answers set and PDF output requested, the PDF answer-key
\* artifact holds the answer key of the test's questions, one entry per
\* question with its correct answer and points, and not a second rendering
\* of the question sheet.
C25_AnswerPdfIsAnswerKey ==
    LET f == PlainNames(config.output_filename).answers_pdf
    IN  f \in DOMAIN out_files =>
            /\ out_files[f].content = "answers"
            /\ out_files[f].body = generate_answer_key(out_files[f].questions).lines

\* C26: for every multiple-choice question of a generated test, also with
\* shuffle_options enabled, the option letter the answer key gives for the
\* question is a letter under which the correct option is printed in the
\* rendered test.
C26_KeyLetterIsPrintedLetter ==
    (TestFile \in DOMAIN out_files /\ AnswersFile \in DOMAIN out_files) =>
        LET lines == out_files[AnswersFile].body
            printed == out_files[TestFile].body.questions
        IN  \A i \in DOMAIN lines :
                lines[i].letter # Absent =>
                    \E k \in DOMAIN printed[i].options :
                        printed[i].options[k] = <<lines[i].letter[1], lines[i].answer>>

\* C27: for every configured output_filename, with or without a '.md'
\* extension, generate_test writes the answer key to a path different from
\* the path of the test, so the answer key never overwrites the test.
C27_AnswerKeyBesideTest ==
    (PlainKeys.md \in DOMAIN results /\ PlainKeys.answers_md \in DOMAIN results) =>
        /\ results[PlainKeys.answers_md] # results[PlainKeys.md]
        /\ out_files[results[PlainKeys.md]].content = "test"

\* C28: in place, encrypt_file and decrypt_file delete the source file only
\* after the output file has been written completely, and after a call that
\* failed at any step the source file is present with its content unchanged.
C28_SourceOutlivesFailure ==
    (last.op # "none" /\ last.in_place) =>
        /\ ~last.ret => (last.path \in DOMAIN fs /\ last.source_kept)
        /\ last.path \notin DOMAIN fs =>
              /\ last.ret
              /\ last.written.exists
              /\ IF last.op = "decrypt"
                 THEN last.origin.known => last.written.data = last.origin.data
                 ELSE /\ Len(last.written.data) >= SaltLen
                      /\ FernetDecrypt(
                            derive_key_from_password(last.password,
                                                     SaltOf(last.written.data)),
                            EncryptedDataOf(last.written.data))
                         = [raised |-> None, data |-> last.origin.data]

\* C28 witness: an in-place call wrote its whole output file, failed to
\* remove the source, returned False and left the source as it was.
C28_Witness ==
    /\ last.in_place
    /\ last.fault = "unlink"
    /\ ~last.ret
    /\ last.written.exists
    /\ last.path \in DOMAIN fs
    /\ last.source_kept

\* The text in lower case, without punctuation, every run of whitespace one
\* space, and no whitespace at its start or end: it differs from the text
\* only in letter case, in punctuation and in the amount of whitespace.
Canonical(text) == strip(collapse_whitespace(remove_punctuation(lower(text))))

\* C30: generate_hash gives one hash to texts that differ only in letter
\* case, in punctuation or in the amount of whitespace, whitespace next to
\* removed punctuation at the start or end of the text included: a text has
\* the hash of its canonical form.
C30_HashIgnoresCasePunctuationSpacing ==
    hcall.op = "generate_hash" =>
        hcall.ret = generate_hash(Canonical(hcall.question_text))

\* The field of a data row in a column, a field the row lacks being empty.
FieldOf(row, j) == IF j <= Len(row) THEN row[j] ELSE <<>>

\* C29: rehash_csv_file changes nothing but the hash column: after the call
\* on any file the file holds the same rows in the same order with every
\* column other than hash unchanged, each hash is generate_hash of the row's
\* question text, and the value returned is the number of rows.
C29_OnlyHashColumnChanges ==
    (hcall.op = "rehash_csv_file" /\ hcall.before.exists) =>
        LET before == hcall.before
            h == ColumnOf(before.header, "hash")
            q == ColumnOf(before.header, "question")
            width(i) == IF Len(before.rows[i]) > Len(before.header)
                        THEN Len(before.rows[i]) ELSE Len(before.header)
        IN  /\ hcall.raised = None
            /\ hcall.ret = <<Len(before.rows)>>
            /\ csv.exists
            /\ csv.header = before.header
            /\ Len(csv.rows) = Len(before.rows)
            /\ \A i \in DOMAIN before.rows :
                  /\ \A j \in 1 .. width(i) :
                        j # h => FieldOf(csv.rows[i], j) = FieldOf(before.rows[i], j)
                  /\ (h # 0 /\ q # 0) =>
                        csv.rows[i][h] = generate_hash(FieldOf(before.rows[i], q))

====
